---- MODULE Spec2Model ----
(***************************************************************************)
(* Session-scoped conversational routing pipeline of the chatbot backend:  *)
(* ChatbotAgent.invoke_stream and its nodes (server/chatbot/agent.py),     *)
(* the Redis session store (server/shared/redis.py) and the HTTP entry     *)
(* points (server/main.py).                                                *)
(*                                                                         *)
(* Texts are sequences of characters.  A fixed literal of the program that *)
(* is never inspected character by character is written as one token.     *)
(***************************************************************************)
EXTENDS Integers, Sequences, FiniteSets, TLC

\* ------------------------------------------------------------------ bounds

\* Turns started in one behaviour.
MaxTurns == 2
\* Items a streaming completion delivers before it ends or raises.
MaxChunks == 2
\* Messages of a history handed to the serializer on its own.
MaxMessages == 3
\* Characters of a result text handed to the sentinel check on its own.
MaxResultLen == 4
\* Characters put before, and after, a label handed to the router on its own.
MaxWrap == 2
\* Pieces of a completion text handed to the query builder on its own.
MaxPieces == 3

\* Concurrent requests (asyncio tasks running invoke_stream).
Slots == {"t1", "t2"}
\* X-Session-Id values.
Sessions == {"sA", "sB"}

\* What the surroundings of the agent do in one behaviour: the request slots
\* and session ids in use, the capabilities that may fail ("get", "set",
\* "expire": Redis commands; "llm": completions; "db": the datastore) and
\* the moves that may occur ("abandon": the caller stops pulling; "clear",
\* "read": the other two endpoints; "expire": a key's time-to-live runs out;
\* "delete": the builder's model writes a DELETE statement; "variants": the
\* completions vary in form: letter case, quotes, code fences, blank texts,
\* chunks without content).
Scenario(name, slots, sessions, faults, moves) ==
    [name |-> name, slots |-> slots, sessions |-> sessions,
     faults |-> faults, moves |-> moves]

FaultsScenario ==
    Scenario("faults", {"t1"}, {"sA"}, {"get", "set", "llm", "db"},
             {"abandon", "variants"})

Scenarios ==
    {FaultsScenario,
     Scenario("endpoints", {"t1"}, {"sA"}, {}, {"clear", "read", "expire"})}

\* The endpoints while Redis commands may fail.
ClearScenarios ==
    {Scenario("clearing", {"t1"}, {"sA"}, {"get", "set", "db"}, {"clear"})}
\* The form field q of the n-th request.
UserInput(n) == <<"question ", ToString(n)>>

\* ------------------------------------------------------------------- texts

Whitespace == {" ", "\n"}

RECURSIVE LStrip(_, _)
\* str.lstrip(chars)
LStrip(s, chars) ==
    IF s # <<>> /\ Head(s) \in chars THEN LStrip(Tail(s), chars) ELSE s

RECURSIVE RStrip(_, _)
\* str.rstrip(chars)
RStrip(s, chars) ==
    IF s # <<>> /\ s[Len(s)] \in chars
    THEN RStrip(SubSeq(s, 1, Len(s) - 1), chars)
    ELSE s

\* str.strip(chars); str.strip() is Strip(s, Whitespace)
Strip(s, chars) == RStrip(LStrip(s, chars), chars)

LowerChar(c) ==
    CASE c = "C" -> "c" [] c = "H" -> "h" [] c = "A" -> "a" [] c = "T" -> "t"
      [] c = "S" -> "s" [] c = "Q" -> "q" [] c = "L" -> "l" [] c = "O" -> "o"
      [] c = "F" -> "f" [] c = "I" -> "i" [] c = "D" -> "d" [] c = "E" -> "e"
      [] OTHER -> c

\* str.lower()
Lower(s) == [i \in 1..Len(s) |-> LowerChar(s[i])]

RECURSIVE Concat(_)
\* ''.join(seq of texts)
Concat(ss) == IF ss = <<>> THEN <<>> ELSE Head(ss) \o Concat(Tail(ss))

\* ---------------------------------------------------------------- messages

\* GLOBAL_SYSTEM_PROMPT_PATH contents (self.system_prompt)
system_prompt == <<"<global system prompt>">>

SystemMessage(content) == [cls |-> "SystemMessage", content |-> content]
HumanMessage(content) == [cls |-> "HumanMessage", content |-> content]
AIMessage(content) == [cls |-> "AIMessage", content |-> content, tool_calls |-> <<>>]
ToolMessage(content, id) ==
    [cls |-> "ToolMessage", content |-> content, tool_call_id |-> id]

\* Mutant of SerializeOne: the tool calls of an AI message are left out.
SerializeOne_NoToolCalls(msg) ==
    CASE msg.cls = "SystemMessage" ->
           <<[type |-> "system", content |-> msg.content]>>
      [] msg.cls = "HumanMessage" ->
           <<[type |-> "human", content |-> msg.content]>>
      [] msg.cls = "AIMessage" ->
           <<[type |-> "ai", content |-> msg.content]>>
      [] msg.cls = "ToolMessage" ->
           <<[type |-> "tool", content |-> msg.content,
              tool_call_id |-> msg.tool_call_id]>>
      [] OTHER -> <<>>

\* One message -> list of 0 or 1 dicts (a message of another class is skipped).
SerializeOne(msg) ==
    CASE msg.cls = "SystemMessage" ->
           <<[type |-> "system", content |-> msg.content]>>
      [] msg.cls = "HumanMessage" ->
           <<[type |-> "human", content |-> msg.content]>>
      [] msg.cls = "AIMessage" ->
           IF msg.tool_calls # <<>>
           THEN <<[type |-> "ai", content |-> msg.content,
                   tool_calls |-> msg.tool_calls]>>
           ELSE <<[type |-> "ai", content |-> msg.content]>>
      [] msg.cls = "ToolMessage" ->
           <<[type |-> "tool", content |-> msg.content,
              tool_call_id |-> msg.tool_call_id]>>
      [] OTHER -> <<>>

RECURSIVE _serialize_messages(_)
_serialize_messages(msgs) ==
    IF msgs = <<>> THEN <<>>
    ELSE SerializeOne(Head(msgs)) \o _serialize_messages(Tail(msgs))

DeserializeOne(d) ==
    CASE d.type = "system" -> <<SystemMessage(d.content)>>
      [] d.type = "human" -> <<HumanMessage(d.content)>>
      [] d.type = "ai" ->
           IF "tool_calls" \in DOMAIN d
           THEN <<[AIMessage(d.content) EXCEPT !.tool_calls = d.tool_calls]>>
           ELSE <<AIMessage(d.content)>>
      [] d.type = "tool" -> <<ToolMessage(d.content, d.tool_call_id)>>
      [] OTHER -> <<>>

RECURSIVE _deserialize_messages(_)
_deserialize_messages(data) ==
    IF data = <<>> THEN <<>>
    ELSE DeserializeOne(Head(data)) \o _deserialize_messages(Tail(data))

\* ------------------------------------------------------------- Redis store

\* SessionStore.default_ttl
default_ttl == 86400

\* Mutant of _make_key: every session id is given the same key.
_make_key_Shared(session_id) == <<"session:", "default">>

\* SessionStore._make_key
_make_key(session_id) == <<"session:", session_id>>

\* json.dumps(data).encode('utf-8') and json.loads(data.decode('utf-8'))
JsonDumps(data) == [utf8 |-> data]
JsonLoads(bytes) == bytes.utf8

\* A key that does not exist.
Absent == [present |-> FALSE, bytes |-> JsonDumps(<<>>), ttl |-> <<>>]

\* RedisAdapter.set(key, value, expire_seconds) on the key's entry: SET drops
\* any previous expiry, EXPIRE then sets the new one.
RedisSet(entry, value, expire_seconds, outcome) ==
    CASE outcome = "set_raises" -> entry
      [] outcome = "expire_raises" ->
           [present |-> TRUE, bytes |-> value, ttl |-> <<>>]
      [] OTHER ->
           [present |-> TRUE, bytes |-> value,
            ttl |-> IF expire_seconds # 0 THEN <<expire_seconds>> ELSE <<>>]

\* SessionStore.save_session: the new contents of the Redis database.
save_session(db, session_id, data, outcome) ==
    [db EXCEPT ![_make_key(session_id)] =
        RedisSet(@, JsonDumps(data), default_ttl, outcome)]

\* SessionStore.load_session: <<found, data>>; a failure reads as "not found".
load_session(db, session_id, outcome) ==
    LET entry == db[_make_key(session_id)] IN
    IF outcome = "get_raises" \/ ~entry.present
    THEN [found |-> FALSE, data |-> <<>>]
    ELSE [found |-> TRUE, data |-> JsonLoads(entry.bytes)]

\* ------------------------------------------------------------- RouterNode

OFFSIDE == <<"o", "f", "f", "s", "i", "d", "e">>
CHAT == <<"c", "h", "a", "t">>
SQL == <<"s", "q", "l">>

\* Outcome of a completion call (llm.ainvoke): it raises, or returns content.
LlmRaises == [raised |-> TRUE, content |-> <<>>]
LlmReturns(content) == [raised |-> FALSE, content |-> content]

\* str(e) of an exception raised by the completion capability / the datastore
LlmErrorText == <<"<llm error>">>
DbErrorText == <<"<db error>">>

\* Mutant of NormalizeRoute: the single quotes are trimmed before the double.
NormalizeRoute_QuotesSwapped(content) ==
    Strip(Strip(Lower(Strip(content, Whitespace)), {"'"}), {"\""})

\* response.content.strip().lower().strip('"').strip("'")
NormalizeRoute(content) ==
    Strip(Strip(Lower(Strip(content, Whitespace)), {"\""}), {"'"})

\* Mutant of RouterNode_route: the normalized text is returned unchecked.
RouterNode_route_NoDefault(outcome) ==
    IF outcome.raised THEN CHAT ELSE NormalizeRoute(outcome.content)

\* RouterNode.route, given the outcome of its one completion call
RouterNode_route(outcome) ==
    IF outcome.raised THEN CHAT
    ELSE LET r == NormalizeRoute(outcome.content) IN
         IF r \notin {OFFSIDE, CHAT, SQL} THEN CHAT ELSE r

\* Completion texts the router is tried on.
RouterContents ==
        {CHAT, SQL, OFFSIDE,
         <<" ", "S", "Q", "L", "\n">>,
         <<"\"", "O", "f", "f", "s", "i", "d", "e", "\"">>,
         <<"'", "s", "q", "l", "'">>,
         <<"b", "a", "n", "a", "n", "a">>,
         <<>>,
         <<"s", "q", "l", ".">>}

\* ------------------------------------------------------------ OffsideNode

\* OffsideNode.respond_stream: the one chunk it yields
OffsideResponse ==
    <<"I'm sorry, that question is outside my area of knowledge. I can help you with general conversations. Is there anything else I can assist you with?">>

\* ------------------------------------------------------- QueryBuilderNode

StartsWith(s, p) == Len(s) >= Len(p) /\ SubSeq(s, 1, Len(p)) = p

RECURSIVE Remove(_, _)
\* str.replace(p, '')
Remove(s, p) ==
    IF Len(s) < Len(p) THEN s
    ELSE IF StartsWith(s, p) THEN Remove(SubSeq(s, Len(p) + 1, Len(s)), p)
    ELSE <<Head(s)>> \o Remove(Tail(s), p)

\* The backquote character, written by name (TLA+ strings cannot hold it).
Backquote == "BACKQUOTE"

Fence == <<Backquote, Backquote, Backquote>>
FenceSql == Fence \o SQL

\* Mutant of CleanQuery: the text left after the fences are removed is not
\* trimmed again.
CleanQuery_NoSecondStrip(content) ==
    LET query == Strip(content, Whitespace) IN
    IF StartsWith(query, FenceSql)
    THEN Remove(Remove(query, FenceSql), Fence)
    ELSE IF StartsWith(query, Fence)
    THEN Remove(query, Fence)
    ELSE query

\* The cleaning of the completion text in build_query (lines 117-122)
CleanQuery(content) ==
    LET query == Strip(content, Whitespace) IN
    IF StartsWith(query, FenceSql)
    THEN Strip(Remove(Remove(query, FenceSql), Fence), Whitespace)
    ELSE IF StartsWith(query, Fence)
    THEN Strip(Remove(query, Fence), Whitespace)
    ELSE query

BuildErrorPrefix == <<"Error al construir la consulta SQL: ">>
BuildEmptyText ==
    <<"Error critico: El modelo no genero una consulta SQL valida. Verifica la configuracion del modelo y el prompt.">>

\* QueryBuilderNode.build_query: schema is the outcome of db.get_table_info()
\* ("ok" or "raises"), llm the outcome of the completion call.
build_query(user_input, schema, llm) ==
    IF schema = "raises"
    THEN [ok |-> FALSE, query |-> <<>>, error |-> BuildErrorPrefix \o DbErrorText]
    ELSE IF llm.raised
    THEN [ok |-> FALSE, query |-> <<>>, error |-> BuildErrorPrefix \o LlmErrorText]
    ELSE LET query == CleanQuery(llm.content) IN
         IF query = <<>>
         THEN [ok |-> FALSE, query |-> <<>>,
               error |-> BuildErrorPrefix \o BuildEmptyText]
         ELSE [ok |-> TRUE, query |-> query, error |-> <<>>]

\* Statements the model may write (one token each: never inspected).
SelectStmt == <<"SELECT name FROM persons">>
SelectNoneStmt == <<"SELECT name FROM persons WHERE 1 = 0">>
DeleteStmt == <<"DELETE FROM persons">>

\* Completion texts the builder is tried on (DeleteStmt besides).
BuildContents ==
        {SelectStmt,
         SelectNoneStmt,
         FenceSql \o <<"\n">> \o SelectStmt \o <<"\n">> \o Fence,
         Fence \o SelectStmt \o Fence,
         <<" ">>,
         FenceSql \o <<"\n">> \o Fence}

\* ------------------------------------------------------ QueryExecutorNode

\* The datastore: the rows of the one table the statements touch.
InitialRows == {"row1"}

ExecuteErrorPrefix == <<"Error al ejecutar la consulta: ">>
ExecuteEmptyText == <<"Error critico: No se puede ejecutar un query SQL vacio">>

\* SQLDatabase.run(query): the text it returns and the rows it leaves.
\* render is how the driver renders an empty result ('' or blank).
DbRun(rows, query, render) ==
    IF query = DeleteStmt
    THEN [result |-> <<>>, rows |-> {}]
    ELSE [result |-> IF rows = {} \/ query = SelectNoneStmt
                     THEN render
                     ELSE <<"[('row1',)]">>,
          rows |-> rows]

\* QueryExecutorNode.execute_query: run is "ok" or "raises".
execute_query(query, rows, run, render) ==
    IF query = <<>> \/ Strip(query, Whitespace) = <<>>
    THEN [ok |-> FALSE, result |-> <<>>, rows |-> rows,
          error |-> ExecuteErrorPrefix \o ExecuteEmptyText]
    ELSE IF run = "raises"
    THEN [ok |-> FALSE, result |-> <<>>, rows |-> rows,
          error |-> ExecuteErrorPrefix \o DbErrorText]
    ELSE LET r == DbRun(rows, query, render) IN
         [ok |-> TRUE, result |-> r.result, rows |-> r.rows, error |-> <<>>]

\* ----------------------------------------------------------- ChatbotAgent

NoDataText == <<"No data available.">>

\* Mutant of InterpreterData: only the empty text is replaced.
InterpreterData_NoStrip(query_results) ==
    IF query_results = <<>> THEN NoDataText ELSE query_results

\* lines 301-302: the data handed to the interpreter prompt
InterpreterData(query_results) ==
    IF query_results = <<>> \/ Strip(query_results, Whitespace) = <<>>
    THEN NoDataText
    ELSE query_results

\* sql_interpreter_prompt_template.format(question=..., data=...)
InterpreterContext(question, data) ==
    <<"<interpreter template: question=">> \o question \o <<" data=">> \o data

\* Mutant of TempMessages: the interpreter prompt is put after the whole
\* history.
TempMessages_WholeHistory(messages, user_input, query_results) ==
    Append(messages,
           HumanMessage(InterpreterContext(user_input, InterpreterData(query_results))))

\* lines 309-312
TempMessages(messages, user_input, query_results) ==
    <<messages[1],
      HumanMessage(InterpreterContext(user_input, InterpreterData(query_results)))>>

ChatErrorPrefix == <<"Lo siento, hubo un error al procesar tu mensaje: ">>
SqlErrorPrefix ==
    <<"Lo siento, hubo un error al procesar tu consulta a la base de datos: ">>

\* Mutant of SeedMessages: the System message is put twice.
SeedMessages_Twice == <<SystemMessage(system_prompt), SystemMessage(system_prompt)>>

\* line 258 / 267 / 345: the seed history
SeedMessages == <<SystemMessage(system_prompt)>>

\* Mutant of _save_session_messages: the blob is written only when the
\* stored one is still a prefix of it (an optimistic version check).
_save_session_messages_Guarded(db, session_id, messages, outcome) ==
    LET entry == db[_make_key(session_id)]
        old == JsonLoads(entry.bytes)
        new == _serialize_messages(messages)
    IN
    IF entry.present /\ ~(Len(old) <= Len(new) /\ SubSeq(new, 1, Len(old)) = old)
    THEN db
    ELSE save_session(db, session_id, new, outcome)

\* ChatbotAgent._save_session_messages: the new Redis contents
_save_session_messages(db, session_id, messages, outcome) ==
    save_session(db, session_id, _serialize_messages(messages), outcome)

\* Mutant of _get_session_messages: the seed history is not saved.
_get_session_messages_NoSeedSave(db, session_id, get, set) ==
    LET data == load_session(db, session_id, get) IN
    IF ~data.found
    THEN [messages |-> SeedMessages, seeded |-> TRUE, db |-> db]
    ELSE [messages |-> _deserialize_messages(data.data), seeded |-> FALSE,
          db |-> db]

\* Mutant of _get_session_messages: of a stored history only the System
\* message and the last message are handed to the turn.
_get_session_messages_Window(db, session_id, get, set) ==
    LET data == load_session(db, session_id, get)
        all == _deserialize_messages(data.data)
    IN
    IF ~data.found
    THEN [messages |-> SeedMessages, seeded |-> TRUE,
          db |-> _save_session_messages(db, session_id, SeedMessages, set)]
    ELSE [messages |-> IF Len(all) <= 2 THEN all ELSE <<all[1], all[Len(all)]>>,
          seeded |-> FALSE, db |-> db]

\* ChatbotAgent._get_session_messages: the history it returns, the Redis
\* contents it leaves, and whether it seeded the session.
_get_session_messages(db, session_id, get, set) ==
    LET data == load_session(db, session_id, get) IN
    IF ~data.found
    THEN [messages |-> SeedMessages, seeded |-> TRUE,
          db |-> _save_session_messages(db, session_id, SeedMessages, set)]
    ELSE [messages |-> _deserialize_messages(data.data), seeded |-> FALSE,
          db |-> db]

\* ------------------------------------------------------------------ state

VARIABLES
    env,               \* the scenario of this behaviour (never changes)
    store,             \* Redis: key -> [present, bytes, ttl]
    rows,              \* the relational datastore
    turns,             \* per request slot: the frame of invoke_stream
    nturns,            \* turns started so far
    history_response,  \* the last GET /chatbot/history: its 'data' and the
                       \* session, Redis outcome and key's entry it met
    cleared,           \* per session: the clear_history call that no save of
                       \* a turn has followed yet (NotCleared when none)
    probe              \* a function under test: its input and its result

vars == <<env, store, rows, turns, nturns, history_response, cleared, probe>>

Keys == {_make_key(s) : s \in Sessions}

\* Outcomes of the Redis commands behind one RedisAdapter.set call:
\* SET and EXPIRE both succeed; SET raises; SET succeeds and EXPIRE raises.
SetOutcomes ==
    {"ok"} \cup (IF "set" \in env.faults THEN {"set_raises"} ELSE {})
           \cup (IF "expire" \in env.faults THEN {"expire_raises"} ELSE {})
\* Outcomes of the Redis GET behind RedisAdapter.get.
GetOutcomes ==
    {"ok"} \cup (IF "get" \in env.faults THEN {"get_raises"} ELSE {})
\* Outcomes of a datastore call.
DbOutcomes ==
    {"ok"} \cup (IF "db" \in env.faults THEN {"raises"} ELSE {})
\* Outcomes of the router's and the builder's completion call.
RouterOutcomes ==
    {LlmReturns(c) : c \in IF "variants" \in env.moves THEN RouterContents
                            ELSE {OFFSIDE, CHAT, SQL}}
        \cup (IF "llm" \in env.faults THEN {LlmRaises} ELSE {})
BuildOutcomes ==
    {LlmReturns(c) : c \in IF "variants" \in env.moves THEN BuildContents
                            ELSE {SelectStmt}}
        \cup (IF "delete" \in env.moves THEN {LlmReturns(DeleteStmt)} ELSE {})
        \cup (IF "llm" \in env.faults THEN {LlmRaises} ELSE {})

\* No completion response at hand.
NoResponse == LlmReturns(<<>>)

\* No clear_history call to remember; else the outcome of the call's Redis
\* commands and the key's entry when it was made.
NotCleared == [outcome |-> "", before |-> Absent]

\* No GET /chatbot/history answered yet.
NoHistoryResponse ==
    [session_id |-> "", outcome |-> "", before |-> Absent, after |-> Absent,
     data |-> <<>>]

\* No function under test; a function about to be applied to an input.
NoProbe == [fn |-> "", input |-> <<>>, applied |-> FALSE, output |-> <<>>]
Probe(fn, input) == [NoProbe EXCEPT !.fn = fn, !.input = input]

\* A request slot with no invoke_stream generator.
IdleTurn ==
    [pc |-> "idle", session_id |-> "", user_input |-> <<>>,
     messages |-> <<>>, route |-> <<>>, response |-> NoResponse,
     sql_query |-> <<>>, query_results |-> <<>>, temp_messages |-> <<>>,
     full_response |-> <<>>, received |-> 0,
     out |-> <<>>,          \* chunks yielded to the caller, in order
     escaped |-> FALSE,     \* an exception left invoke_stream
     abandoned |-> FALSE,   \* the caller stopped pulling
     \* history of the turn, kept for the properties:
     loaded |-> <<>>,       \* what _get_session_messages returned
     seeded |-> FALSE,      \* the load found no blob
     ops |-> <<>>,          \* calls made on the session store
     stages |-> <<>>,       \* SQL stages entered
     calls |-> <<>>,        \* completion and datastore calls made
     strategies |-> <<>>,   \* branches of lines 285-330 entered
     overwrote |-> NotCleared,  \* the clear_history call whose blob the
                            \* final save met, if any
     streamed |-> <<>>,     \* non-empty fragments the stream delivered
     failures |-> {}]       \* "router", "build", "execute", "stream"

\* The agent and its collaborators after construction.
Constructed ==
    /\ store = [k \in Keys |-> Absent]
    /\ rows = InitialRows
    /\ turns = [t \in Slots |-> IdleTurn]
    /\ nturns = 0
    /\ history_response = NoHistoryResponse
    /\ cleared = [s \in Sessions |-> NotCleared]

\* The state after construction, in one of the given scenarios.
Boot(scenarios) ==
    /\ env \in scenarios
    /\ probe = NoProbe
    /\ Constructed

\* The state after construction with one function call pending, no request
\* being served.
Bench(fn, inputs) ==
    /\ env = Scenario("bench", {}, {}, {}, {})
    /\ probe \in {Probe(fn, input) : input \in inputs}
    /\ Constructed

Init == Boot(Scenarios)

\* ---------------------------------------------------------------- helpers

\* `yield chunk`: the chunk reaches the caller and the generator suspends.
Yield(tr, chunk, pc) == [tr EXCEPT !.out = Append(@, chunk), !.pc = pc]

\* Record a call on the session store: its payload, the outcome of its Redis
\* commands, the key's entry when it returns and the chunks yielded so far.
LogOp(tr, op, data, outcome, after) ==
    [tr EXCEPT !.ops = Append(@, [op |-> op, session_id |-> tr.session_id,
                                  data |-> data, outcome |-> outcome,
                                  after |-> after, yielded |-> Len(tr.out)])]

Fail(tr, what) == [tr EXCEPT !.failures = @ \cup {what}]

\* Record calls of the completion capability and of the datastore.
Call(tr, names) == [tr EXCEPT !.calls = @ \o names]

\* Record the branch of lines 285-330 that is entered.
Enter(tr, strategy) == [tr EXCEPT !.strategies = Append(@, strategy)]

\* Mutant of ExceptionCatches: the handlers name a narrower class.
ExceptionCatches_Narrow(cls) == cls = "ValueError"

\* Mutant of ExceptionCatches: the handlers catch BaseException.
ExceptionCatches_Base(cls) == TRUE

\* `except Exception` matches: GeneratorExit and asyncio.CancelledError derive
\* from BaseException and pass through it.
ExceptionCatches(cls) == cls = "Exception"

\* The try block that encloses each suspension point of invoke_stream.
SiteOf(pc) ==
    CASE pc = "chat_astream" -> "chat_stream"
      [] pc \in {"build", "execute", "interpret_astream", "interpret_yield"}
           -> "sql_flow"
      [] OTHER -> "invoke_stream"

\* Mutant of ChatStreamExcept: the handler also records the error text.
ChatStreamExcept_Records(tr, text) ==
    Yield([tr EXCEPT !.messages = Append(@, AIMessage(ChatErrorPrefix \o text))],
          ChatErrorPrefix \o text, "chat_error_yield")

\* lines 85-87: the handler of ChatNode.chat_stream
ChatStreamExcept(tr, text) ==
    Yield(tr, ChatErrorPrefix \o text, "chat_error_yield")

\* Mutant of SqlFlowExcept: the handler yields the error without recording it.
SqlFlowExcept_NoRecord(tr, text) ==
    Yield(tr, SqlErrorPrefix \o text, "sql_error_yield")

\* Mutant of SqlFlowExcept: the message recorded is str(e), not the text
\* that is yielded.
SqlFlowExcept_BareText(tr, text) ==
    Yield([tr EXCEPT !.messages = Append(@, AIMessage(text))],
          SqlErrorPrefix \o text, "sql_error_yield")

\* Mutant of SqlFlowExcept: a failed SQL flow hands the question to the chat
\* node.
SqlFlowExcept_FallsBack(tr, text) ==
    [Call(Enter(tr, "chat"), <<"chat_llm.astream">>)
     EXCEPT !.full_response = <<>>, !.pc = "chat_astream"]

\* lines 322-326: the handler of the SQL flow
SqlFlowExcept(tr, text) ==
    LET error_message == SqlErrorPrefix \o text IN
    Yield([tr EXCEPT !.messages = Append(@, AIMessage(error_message))],
          error_message, "sql_error_yield")

\* lines 334-336: the outermost handler of invoke_stream
OuterExcept(tr, text) ==
    Yield(tr, ChatErrorPrefix \o text, "outer_error_yield")

\* An exception of class cls with str(e) = text raised at pc: the frame after
\* the innermost matching handler has run up to its yield.
Raise(tr, cls, text) ==
    IF ~ExceptionCatches(cls)
    THEN [tr EXCEPT !.pc = "closed",
                    !.escaped = cls \notin {"GeneratorExit", "CancelledError"}]
    ELSE CASE SiteOf(tr.pc) = "chat_stream" -> ChatStreamExcept(tr, text)
           [] SiteOf(tr.pc) = "sql_flow" -> SqlFlowExcept(tr, text)
           [] OTHER -> OuterExcept(tr, text)

\* Mutant of SaveAndFinish: the history is saved twice.
SaveAndFinish_Twice(t, tr) ==
    \E set \in SetOutcomes :
        /\ store' = _save_session_messages(store, tr.session_id, tr.messages, set)
        /\ cleared' = [cleared EXCEPT ![tr.session_id] = NotCleared]
        /\ turns' = [turns EXCEPT ![t] =
              [LogOp(LogOp(tr, "save", _serialize_messages(tr.messages), set,
                           store'[_make_key(tr.session_id)]),
                     "save", _serialize_messages(tr.messages), set,
                     store'[_make_key(tr.session_id)])
               EXCEPT !.pc = "done"]]

\* Mutant of SaveAndFinish: a save the store rejects is reported to the
\* caller as one more chunk.
SaveAndFinish_Reports(t, tr) ==
    \E set \in SetOutcomes :
        /\ store' = _save_session_messages(store, tr.session_id, tr.messages, set)
        /\ cleared' = [cleared EXCEPT ![tr.session_id] = NotCleared]
        /\ turns' = [turns EXCEPT ![t] =
              [LogOp(tr, "save", _serialize_messages(tr.messages), set,
                     store'[_make_key(tr.session_id)])
               EXCEPT !.pc = "done",
                      !.out = IF set = "ok" THEN @
                              ELSE Append(@, ChatErrorPrefix \o <<"<redis error>">>)]]

\* Mutant of SaveAndFinish: after a clear of the session only the system
\* message and the messages of this turn are saved.
SaveAndFinish_AfterClear(t, tr) ==
    \E set \in SetOutcomes :
        LET kept == IF cleared[tr.session_id].outcome = "ok"
                    THEN SeedMessages \o
                         SubSeq(tr.messages, Len(tr.loaded) + 1, Len(tr.messages))
                    ELSE tr.messages
        IN
        /\ store' = _save_session_messages(store, tr.session_id, kept, set)
        /\ cleared' = [cleared EXCEPT ![tr.session_id] = NotCleared]
        /\ turns' = [turns EXCEPT ![t] =
              [LogOp(tr, "save", _serialize_messages(kept), set,
                     store'[_make_key(tr.session_id)])
               EXCEPT !.pc = "done",
                      !.overwrote = cleared[tr.session_id]]]

\* line 332 followed by the end of the generator
SaveAndFinish(t, tr) ==
    \E set \in SetOutcomes :
        /\ store' = _save_session_messages(store, tr.session_id, tr.messages, set)
        /\ cleared' = [cleared EXCEPT ![tr.session_id] = NotCleared]
        /\ turns' = [turns EXCEPT ![t] =
              [LogOp(tr, "save", _serialize_messages(tr.messages), set,
                     store'[_make_key(tr.session_id)])
               EXCEPT !.pc = "done",
                      !.overwrote = cleared[tr.session_id]]]

\* ---------------------------------------------------------------- actions

\* main.chat_stream: POST /chatbot/text-to-text creates the generator.
Start(t) ==
    /\ t \in env.slots
    /\ turns[t].pc = "idle"
    /\ nturns < MaxTurns
    /\ \E sid \in env.sessions :
          turns' = [turns EXCEPT ![t] =
              [IdleTurn EXCEPT !.pc = "created", !.session_id = sid,
                               !.user_input = UserInput(nturns + 1)]]
    /\ nturns' = nturns + 1
    /\ UNCHANGED <<env, probe, store, cleared, rows, history_response>>

\* line 280: messages = self._get_session_messages(session_id)
GetSessionMessages(t) ==
    LET tr == turns[t] IN
    /\ tr.pc = "created"
    /\ \E get \in GetOutcomes, set \in SetOutcomes :
          LET r == _get_session_messages(store, tr.session_id, get, set)
              key == _make_key(tr.session_id)
              t1 == LogOp(tr, "load", <<>>, get, store[key])
              t2 == IF r.seeded
                    THEN LogOp(t1, "save", _serialize_messages(r.messages), set,
                               r.db[key])
                    ELSE t1
          IN /\ store' = r.db
             /\ cleared' = IF r.seeded
                           THEN [cleared EXCEPT ![tr.session_id] = NotCleared]
                           ELSE cleared
             /\ turns' = [turns EXCEPT ![t] =
                   [t2 EXCEPT !.pc = "route", !.messages = r.messages,
                              !.loaded = r.messages, !.seeded = r.seeded]]
    /\ UNCHANGED <<env, probe, rows, nturns, history_response>>

\* line 282: route = await self.router_node.route(user_input)
Route(t) ==
    LET tr == turns[t] IN
    /\ tr.pc = "route"
    /\ \E outcome \in RouterOutcomes :
          turns' = [turns EXCEPT ![t] =
              [Call(IF outcome.raised THEN Fail(tr, "router") ELSE tr,
                    <<"router.llm.ainvoke">>)
               EXCEPT !.pc = "dispatch", !.response = outcome,
                      !.route = RouterNode_route(outcome)]]
    /\ UNCHANGED <<env, probe, store, cleared, rows, nturns, history_response>>

\* Mutant of Dispatch: an offside question is handed to the chat completion.
Dispatch_OffsideAsks(t) ==
    LET tr == [Enter(turns[t], IF turns[t].route = SQL THEN "sql" ELSE "chat")
               EXCEPT !.response = NoResponse] IN
    /\ tr.pc = "dispatch"
    /\ turns' = [turns EXCEPT ![t] =
          IF tr.route = SQL
          THEN [tr EXCEPT !.messages = Append(@, HumanMessage(tr.user_input)),
                          !.pc = "build"]
          ELSE [Call(tr, <<"chat_llm.astream">>)
                EXCEPT !.messages = Append(@, HumanMessage(tr.user_input)),
                       !.full_response = <<>>,
                       !.pc = "chat_astream"]]
    /\ UNCHANGED <<env, probe, store, cleared, rows, nturns, history_response>>

\* lines 285-330 up to the first suspension of the chosen branch
Dispatch(t) ==
    LET tr == [Enter(turns[t], IF turns[t].route = OFFSIDE THEN "offside"
                               ELSE IF turns[t].route = SQL THEN "sql"
                               ELSE "chat")
               EXCEPT !.response = NoResponse] IN
    /\ tr.pc = "dispatch"
    /\ turns' = [turns EXCEPT ![t] =
          IF tr.route = OFFSIDE
          THEN \* lines 286-290
               Yield([tr EXCEPT !.messages = Append(@, HumanMessage(tr.user_input)),
                                !.full_response = OffsideResponse],
                     OffsideResponse, "offside_yield")
          ELSE IF tr.route = SQL
          THEN \* lines 295-297
               [tr EXCEPT !.messages = Append(@, HumanMessage(tr.user_input)),
                          !.pc = "build"]
          ELSE \* lines 329, 74-78
               [Call(tr, <<"chat_llm.astream">>)
                EXCEPT !.messages = Append(@, HumanMessage(tr.user_input)),
                       !.full_response = <<>>,
                       !.pc = "chat_astream"]]
    /\ UNCHANGED <<env, probe, store, cleared, rows, nturns, history_response>>

\* Mutant of OffsideResume: the branch ends the turn without the save.
OffsideResume_NoSave(t) ==
    LET tr == turns[t] IN
    /\ tr.pc = "offside_yield"
    /\ turns' = [turns EXCEPT ![t] =
          [tr EXCEPT !.messages = Append(@, AIMessage(tr.full_response)),
                     !.pc = "done"]]
    /\ UNCHANGED <<env, probe, store, cleared, rows, nturns, history_response>>

\* lines 291, 332: the caller pulls after the refusal chunk
OffsideResume(t) ==
    LET tr == turns[t] IN
    /\ tr.pc = "offside_yield"
    /\ SaveAndFinish(t, [tr EXCEPT !.messages = Append(@, AIMessage(tr.full_response))])
    /\ UNCHANGED <<env, probe, rows, nturns, history_response>>

\* What the n-th chunk of a streaming completion may carry (chunk.content):
\* nothing, or the n-th fragment of the text.
ChunkContents(n) == {<<>>, <<"fragment ", ToString(n)>>}
ChunkOutcomes(n) ==
    IF "variants" \in env.moves THEN ChunkContents(n)
    ELSE ChunkContents(n) \ {<<>>}

EnterStage(tr, stage) ==
    [tr EXCEPT !.stages = Append(@, [stage |-> stage, messages |-> tr.messages])]

\* line 297: sql_query = await self.query_builder_node.build_query(user_input)
BuildQuery(t) ==
    /\ turns[t].pc = "build"
    /\ \E schema \in DbOutcomes, llm \in BuildOutcomes :
          LET tr == Call(EnterStage(turns[t], "build"),
                         <<"db.get_table_info">> \o
                         (IF schema = "raises" THEN <<>>
                          ELSE <<"builder.llm.ainvoke">>))
              r == build_query(tr.user_input, schema, llm)
          IN
          turns' = [turns EXCEPT ![t] =
              IF r.ok
              THEN [tr EXCEPT !.sql_query = r.query, !.pc = "execute"]
              ELSE Raise(Fail(tr, "build"), "Exception", r.error)]
    /\ UNCHANGED <<env, probe, store, cleared, rows, nturns, history_response>>

\* lines 299-315: execute_query, the sentinel, the interpreter prompt and the
\* call of chat_llm.astream
ExecuteQuery(t) ==
    /\ turns[t].pc = "execute"
    /\ \E run \in DbOutcomes, render \in {<<>>, <<" ">>} :
          LET r == execute_query(turns[t].sql_query, rows, run, render)
              tr == Call(EnterStage(turns[t], "execute"),
                         (IF Strip(turns[t].sql_query, Whitespace) = <<>>
                          THEN <<>> ELSE <<"db.run">>) \o
                         (IF r.ok THEN <<"chat_llm.astream">> ELSE <<>>))
          IN
          /\ rows' = r.rows
          /\ turns' = [turns EXCEPT ![t] =
                IF r.ok
                THEN [EnterStage(tr, "interpret") EXCEPT
                        !.query_results = InterpreterData(r.result),
                        !.temp_messages =
                            TempMessages(tr.messages, tr.user_input, r.result),
                        !.full_response = <<>>,
                        !.pc = "interpret_astream"]
                ELSE Raise(Fail(tr, "execute"), "Exception", r.error)]
    /\ UNCHANGED <<env, probe, store, cleared, nturns, history_response>>

\* lines 315-318: the interpreter stream delivers one chunk
InterpretChunk(t) ==
    LET tr == turns[t] IN
    /\ tr.pc = "interpret_astream"
    /\ tr.received < MaxChunks
    /\ \E content \in ChunkOutcomes(tr.received + 1) :
          turns' = [turns EXCEPT ![t] =
              IF content # <<>>
              THEN Yield([tr EXCEPT !.full_response = @ \o content,
                                    !.streamed = Append(@, content),
                                    !.received = @ + 1],
                         content, "interpret_yield")
              ELSE [tr EXCEPT !.received = @ + 1]]
    /\ UNCHANGED <<env, probe, store, cleared, rows, nturns, history_response>>

\* the caller pulls after a chunk of the interpreter
InterpretResume(t) ==
    /\ turns[t].pc = "interpret_yield"
    /\ turns' = [turns EXCEPT ![t].pc = "interpret_astream"]
    /\ UNCHANGED <<env, probe, store, cleared, rows, nturns, history_response>>

\* Mutant of InterpretEnd: the data of the prompt is stored as the answer.
InterpretEnd_Raw(t) ==
    LET tr == turns[t] IN
    /\ tr.pc = "interpret_astream"
    /\ SaveAndFinish(t, [tr EXCEPT !.messages = Append(@, AIMessage(tr.query_results))])
    /\ UNCHANGED <<env, probe, rows, nturns, history_response>>

\* lines 320, 332: the interpreter stream ends
InterpretEnd(t) ==
    LET tr == turns[t] IN
    /\ tr.pc = "interpret_astream"
    /\ SaveAndFinish(t, [tr EXCEPT !.messages = Append(@, AIMessage(tr.full_response))])
    /\ UNCHANGED <<env, probe, rows, nturns, history_response>>

\* lines 322-326: the interpreter stream raises
InterpretRaise(t) ==
    LET tr == turns[t] IN
    /\ tr.pc = "interpret_astream"
    /\ "llm" \in env.faults
    /\ turns' = [turns EXCEPT ![t] =
          Raise(Fail(tr, "stream"), "Exception", LlmErrorText)]
    /\ UNCHANGED <<env, probe, store, cleared, rows, nturns, history_response>>

\* Mutant of SqlErrorResume: after a failure the SQL flow is tried again.
SqlErrorResume_Retry(t) ==
    /\ turns[t].pc = "sql_error_yield"
    /\ turns' = [turns EXCEPT ![t].pc = "build"]
    /\ UNCHANGED <<env, probe, store, cleared, rows, nturns, history_response>>

\* line 332: the caller pulls after the error chunk of the SQL flow
SqlErrorResume(t) ==
    /\ turns[t].pc = "sql_error_yield"
    /\ SaveAndFinish(t, turns[t])
    /\ UNCHANGED <<env, probe, rows, nturns, history_response>>

\* Mutant of ChatChunk: a fragment is yielded without being accumulated.
ChatChunk_NoAccumulate(t) ==
    LET tr == turns[t] IN
    /\ tr.pc = "chat_astream"
    /\ tr.received < MaxChunks
    /\ \E content \in ChunkOutcomes(tr.received + 1) :
          turns' = [turns EXCEPT ![t] =
              IF content # <<>>
              THEN Yield([tr EXCEPT !.streamed = Append(@, content),
                                    !.received = @ + 1],
                         content, "chat_yield")
              ELSE [tr EXCEPT !.received = @ + 1]]
    /\ UNCHANGED <<env, probe, store, cleared, rows, nturns, history_response>>

\* lines 78-81, 330: the chat stream delivers one chunk
ChatChunk(t) ==
    LET tr == turns[t] IN
    /\ tr.pc = "chat_astream"
    /\ tr.received < MaxChunks
    /\ \E content \in ChunkOutcomes(tr.received + 1) :
          turns' = [turns EXCEPT ![t] =
              IF content # <<>>
              THEN Yield([tr EXCEPT !.full_response = @ \o content,
                                    !.streamed = Append(@, content),
                                    !.received = @ + 1],
                         content, "chat_yield")
              ELSE [tr EXCEPT !.received = @ + 1]]
    /\ UNCHANGED <<env, probe, store, cleared, rows, nturns, history_response>>

\* the caller pulls after a chunk of the chat stream
ChatResume(t) ==
    /\ turns[t].pc = "chat_yield"
    /\ turns' = [turns EXCEPT ![t].pc = "chat_astream"]
    /\ UNCHANGED <<env, probe, store, cleared, rows, nturns, history_response>>

\* Mutant of ChatEnd: the accumulated text is not appended.
ChatEnd_NoAppend(t) ==
    /\ turns[t].pc = "chat_astream"
    /\ SaveAndFinish(t, turns[t])
    /\ UNCHANGED <<env, probe, rows, nturns, history_response>>

\* lines 83, 332: the chat stream ends
ChatEnd(t) ==
    LET tr == turns[t] IN
    /\ tr.pc = "chat_astream"
    /\ SaveAndFinish(t, [tr EXCEPT !.messages = Append(@, AIMessage(tr.full_response))])
    /\ UNCHANGED <<env, probe, rows, nturns, history_response>>

\* lines 85-87: the chat stream raises
ChatRaise(t) ==
    LET tr == turns[t] IN
    /\ tr.pc = "chat_astream"
    /\ "llm" \in env.faults
    /\ turns' = [turns EXCEPT ![t] =
          Raise(Fail(tr, "stream"), "Exception", LlmErrorText)]
    /\ UNCHANGED <<env, probe, store, cleared, rows, nturns, history_response>>

\* line 332: the caller pulls after the error chunk of chat_stream
ChatErrorResume(t) ==
    /\ turns[t].pc = "chat_error_yield"
    /\ SaveAndFinish(t, turns[t])
    /\ UNCHANGED <<env, probe, rows, nturns, history_response>>

YieldPcs ==
    {"offside_yield", "interpret_yield", "sql_error_yield", "chat_yield",
     "chat_error_yield"}
AwaitPcs == {"route", "build", "execute", "interpret_astream", "chat_astream"}

\* The caller stops pulling: the generator is closed at a yield
\* (GeneratorExit) or its task is cancelled at an await (CancelledError).
Abandon(t) ==
    LET tr == turns[t] IN
    /\ "abandon" \in env.moves
    /\ tr.pc \in YieldPcs \cup AwaitPcs
    /\ turns' = [turns EXCEPT ![t] =
          Raise([tr EXCEPT !.abandoned = TRUE],
                IF tr.pc \in YieldPcs THEN "GeneratorExit" ELSE "CancelledError",
                <<>>)]
    /\ UNCHANGED <<env, probe, store, cleared, rows, nturns, history_response>>

\* The request is over and its slot serves the next one.
Release(t) ==
    /\ turns[t].pc \in {"done", "closed"}
    /\ turns' = [turns EXCEPT ![t] = IdleTurn]
    /\ UNCHANGED <<env, probe, store, cleared, rows, nturns, history_response>>

\* Mutant of clear_history: the history is reset to the empty list.
clear_history_Empty(session_id) ==
    /\ "clear" \in env.moves
    /\ \E set \in SetOutcomes :
          /\ store' = _save_session_messages(store, session_id, <<>>, set)
          /\ cleared' = [cleared EXCEPT ![session_id] =
                [outcome |-> set, before |-> store[_make_key(session_id)]]]
    /\ UNCHANGED <<env, probe, rows, turns, nturns, history_response>>

\* ChatbotAgent.clear_history, called by POST /chatbot/clear-history
clear_history(session_id) ==
    /\ "clear" \in env.moves
    /\ \E set \in SetOutcomes :
          /\ store' = _save_session_messages(store, session_id, SeedMessages, set)
          /\ cleared' = [cleared EXCEPT ![session_id] =
                [outcome |-> set, before |-> store[_make_key(session_id)]]]
    /\ UNCHANGED <<env, probe, rows, turns, nturns, history_response>>

\* Mutant of get_chat_history: the history is read through the agent
\* (ChatbotAgent.get_history), which seeds a session it does not find.
get_chat_history_Seeds(session_id) ==
    /\ "read" \in env.moves
    /\ \E get \in GetOutcomes, set \in SetOutcomes :
          LET r == _get_session_messages(store, session_id, get, set) IN
          /\ store' = r.db
          /\ history_response' =
                [session_id |-> session_id, outcome |-> get,
                 before |-> store[_make_key(session_id)],
                 after |-> store'[_make_key(session_id)],
                 data |-> SelectSeq(_serialize_messages(r.messages),
                                    LAMBDA msg : msg.type \in {"human", "ai"})]
    /\ UNCHANGED <<env, probe, cleared, rows, turns, nturns>>

\* main.get_chat_history: GET /chatbot/history
get_chat_history(session_id) ==
    /\ "read" \in env.moves
    /\ store' = store
    /\ \E get \in GetOutcomes :
          LET messages_data == load_session(store, session_id, get) IN
          history_response' =
              [session_id |-> session_id, outcome |-> get,
               before |-> store[_make_key(session_id)],
               after |-> store'[_make_key(session_id)],
               data |-> IF ~messages_data.found THEN <<>>
                        ELSE SelectSeq(messages_data.data,
                                       LAMBDA msg : msg.type \in {"human", "ai"})]
    /\ UNCHANGED <<env, probe, cleared, rows, turns, nturns>>

\* Redis drops a key whose time-to-live has run out.
Expire(k) ==
    /\ "expire" \in env.moves
    /\ store[k].present
    /\ store[k].ttl # <<>>
    /\ store' = [store EXCEPT ![k] = Absent]
    /\ UNCHANGED <<env, probe, rows, turns, nturns, history_response, cleared>>

\* The steps of a turn whose completions return and whose caller pulls.
Pull(t) ==
    \/ GetSessionMessages(t)
    \/ Route(t)
    \/ Dispatch(t)
    \/ OffsideResume(t)
    \/ BuildQuery(t)
    \/ ExecuteQuery(t)
    \/ InterpretChunk(t)
    \/ InterpretResume(t)
    \/ InterpretEnd(t)
    \/ SqlErrorResume(t)
    \/ ChatChunk(t)
    \/ ChatResume(t)
    \/ ChatEnd(t)

Next ==
    \/ \E t \in Slots :
          \/ Start(t)
          \/ GetSessionMessages(t)
          \/ Route(t)
          \/ Dispatch(t)
          \/ OffsideResume(t)
          \/ BuildQuery(t)
          \/ ExecuteQuery(t)
          \/ InterpretChunk(t)
          \/ InterpretResume(t)
          \/ InterpretEnd(t)
          \/ InterpretRaise(t)
          \/ SqlErrorResume(t)
          \/ ChatChunk(t)
          \/ ChatResume(t)
          \/ ChatEnd(t)
          \/ ChatRaise(t)
          \/ ChatErrorResume(t)
          \/ Abandon(t)
          \/ Release(t)
    \/ \E s \in env.sessions : clear_history(s)
    \/ \E s \in env.sessions : get_chat_history(s)
    \/ \E k \in Keys : Expire(k)

Spec == Init /\ [][Next]_vars

\* ---------------------------------------------- the serializer on its own

\* Message contents and tool calls the serializer is tried on.
SampleContents == {<<>>, <<"h", "i">>}
SampleToolCalls ==
    {<<>>, <<[name |-> "lookup", args |-> <<"x">>, id |-> "call_1"]>>}

SampleMessages ==
    {SystemMessage(c) : c \in SampleContents}
        \cup {HumanMessage(c) : c \in SampleContents}
        \cup {[AIMessage(c) EXCEPT !.tool_calls = tc] :
                  c \in SampleContents, tc \in SampleToolCalls}
        \cup {ToolMessage(c, "call_1") : c \in SampleContents}

\* The histories of at most n sample messages.
RECURSIVE SampleHistories(_)
SampleHistories(n) ==
    IF n = 0 THEN {<<>>}
    ELSE LET shorter == SampleHistories(n - 1) IN
         shorter \cup {Append(h, m) : h \in shorter, m \in SampleMessages}

\* serialize, deserialize, serialize again (lines 210-250)
RoundTrip ==
    /\ probe.fn = "round_trip"
    /\ ~probe.applied
    /\ LET blob == _serialize_messages(probe.input)
           back == _deserialize_messages(blob)
       IN probe' = [probe EXCEPT !.applied = TRUE,
                                 !.output = [blob |-> blob, back |-> back,
                                             again |-> _serialize_messages(back)]]
    /\ UNCHANGED <<env, store, cleared, rows, turns, nturns, history_response>>

InitRoundTrip == Bench("round_trip", SampleHistories(MaxMessages))
SpecRoundTrip == InitRoundTrip /\ [][RoundTrip]_vars

\* The texts of at most n characters over an alphabet.
RECURSIVE Texts(_, _)
Texts(alphabet, n) ==
    IF n = 0 THEN {<<>>}
    ELSE LET shorter == Texts(alphabet, n - 1) IN
         shorter \cup {Append(s, c) : s \in shorter, c \in alphabet}

\* --------------------------------------------------- the router on its own

UpperChar(c) ==
    CASE c = "c" -> "C" [] c = "h" -> "H" [] c = "a" -> "A" [] c = "t" -> "T"
      [] c = "s" -> "S" [] c = "q" -> "Q" [] c = "l" -> "L" [] c = "o" -> "O"
      [] c = "f" -> "F" [] c = "i" -> "I" [] c = "d" -> "D" [] c = "e" -> "E"
      [] OTHER -> c

\* A label in lower case, in upper case and capitalized.
Cased(label) ==
    {label,
     [i \in 1..Len(label) |-> UpperChar(label[i])],
     [i \in 1..Len(label) |-> IF i = 1 THEN UpperChar(label[i]) ELSE label[i]]}

\* What a completion may put around the label.
WrapChars == {" ", "\"", "'"}

\* Completion texts the router is tried on: a label in some case between up
\* to n wrapping characters on each side.
WrappedLabels(n) ==
    {before \o word \o after :
        before \in Texts(WrapChars, n),
        word \in UNION {Cased(label) : label \in {OFFSIDE, CHAT, SQL}},
        after \in Texts(WrapChars, n)}

\* RouterNode.route on a completion text
RouteText ==
    /\ probe.fn = "route"
    /\ ~probe.applied
    /\ probe' = [probe EXCEPT
          !.applied = TRUE,
          !.output = RouterNode_route(LlmReturns(probe.input))]
    /\ UNCHANGED <<env, store, cleared, rows, turns, nturns, history_response>>

InitRoute == Bench("route", WrappedLabels(MaxWrap))
SpecRoute == InitRoute /\ [][RouteText]_vars

\* ------------------------------------- the empty-result sentinel on its own

\* Result texts of execute_query the sentinel check is tried on.
SampleResults == Texts({" ", "\n", "r"}, MaxResultLen)

\* lines 301-312 on a result text: the data and the interpreter's messages
Sentinel ==
    /\ probe.fn = "sentinel"
    /\ ~probe.applied
    /\ probe' = [probe EXCEPT
          !.applied = TRUE,
          !.output = [data |-> InterpreterData(probe.input),
                      temp_messages |->
                          TempMessages(SeedMessages, UserInput(1), probe.input)]]
    /\ UNCHANGED <<env, store, cleared, rows, turns, nturns, history_response>>

InitSentinel == Bench("sentinel", SampleResults)
SpecSentinel == InitSentinel /\ [][Sentinel]_vars

\* The steps of a turn whose awaited calls return or raise and whose caller
\* pulls every chunk.
Drive(t) ==
    \/ Pull(t)
    \/ InterpretRaise(t)
    \/ ChatRaise(t)
    \/ ChatErrorResume(t)

\* Turns that are never abandoned: every awaited completion or datastore
\* call completes and the caller asks for the next chunk, so a turn that can
\* take a step eventually takes one.
PulledScenarios ==
    {Scenario("pulled", {"t1"}, {"sA"}, {"llm", "db"}, {})}
InitPulled == Boot(PulledScenarios)
NextPulled == \E t \in Slots : Start(t) \/ Drive(t) \/ Release(t)
SpecPulled ==
    InitPulled /\ [][NextPulled]_vars /\ \A t \in Slots : WF_vars(Drive(t))

\* Two requests served at once on one session id.
RaceScenarios ==
    {Scenario("race", {"t1", "t2"}, {"sA"}, {"db"}, {})}
InitRace == Boot(RaceScenarios)
NextRace == \E t \in Slots : Start(t) \/ Pull(t) \/ Release(t)
SpecRace == InitRace /\ [][NextRace]_vars

\* Turns and history reads while Redis commands may fail.
ReadScenarios ==
    {Scenario("reading", {"t1"}, {"sA"}, {"get", "db"}, {"read"})}
InitRead == Boot(ReadScenarios)
NextRead ==
    \/ \E t \in Slots : Start(t) \/ Pull(t) \/ Release(t)
    \/ \E s \in env.sessions : get_chat_history(s)
SpecRead == InitRead /\ [][NextRead]_vars

\* Turns and clear-history calls while Redis commands may fail.
InitClear == Boot(ClearScenarios)
NextClear ==
    \/ \E t \in Slots : Start(t) \/ Pull(t) \/ Release(t)
    \/ \E s \in env.sessions : clear_history(s)
SpecClear == InitClear /\ [][NextClear]_vars

\* Turns, clears and history reads while the EXPIRE that follows a SET may
\* fail.
TtlScenarios ==
    {Scenario("ttl", {"t1"}, {"sA"}, {"expire", "db"}, {"clear", "read"})}
InitTtl == Boot(TtlScenarios)
NextTtl ==
    \/ \E t \in Slots : Start(t) \/ Pull(t) \/ Release(t)
    \/ \E s \in env.sessions : clear_history(s)
    \/ \E s \in env.sessions : get_chat_history(s)
SpecTtl == InitTtl /\ [][NextTtl]_vars

\* Sql turns whose builder completion may be a statement that writes.
WriteScenarios ==
    {Scenario("write", {"t1"}, {"sA"}, {"db"}, {"delete"})}
InitWrite == Boot(WriteScenarios)
NextWrite == \E t \in Slots : Start(t) \/ Pull(t) \/ Release(t)
SpecWrite == InitWrite /\ [][NextWrite]_vars

\* ---------------------------------------- Build and Execute on their own

\* What a builder completion is made of.
QueryPieces == {<<" ">>, <<"\n">>, Fence, FenceSql, SelectStmt}

\* The texts of at most n pieces.
RECURSIVE PiecedTexts(_)
PiecedTexts(n) ==
    IF n = 0 THEN {<<>>}
    ELSE LET shorter == PiecedTexts(n - 1) IN
         shorter \cup {s \o piece : s \in shorter, piece \in QueryPieces}

\* build_query on a completion text, and execute_query on the same text as
\* its query, with the datastore answering and with the datastore raising
BuildAndExecute ==
    /\ probe.fn = "build"
    /\ ~probe.applied
    /\ probe' = [probe EXCEPT
          !.applied = TRUE,
          !.output =
              [built |-> build_query(UserInput(1), "ok", LlmReturns(probe.input)),
               executed |->
                   [run \in {"ok", "raises"} |->
                       execute_query(probe.input, InitialRows, run, <<>>)]]]
    /\ UNCHANGED <<env, store, cleared, rows, turns, nturns, history_response>>

\* The two functions on their own, and sql turns whose completions vary in
\* form.
BuildScenarios ==
    {Scenario("forms", {"t1"}, {"sA"}, {"db"}, {"variants"})}
InitBuild == Bench("build", PiecedTexts(MaxPieces)) \/ Boot(BuildScenarios)
NextBuild ==
    \/ BuildAndExecute
    \/ \E t \in Slots : Start(t) \/ Pull(t) \/ Release(t)
SpecBuild == InitBuild /\ [][NextBuild]_vars

\* One request of each of two clients, served at once, with clears and
\* history reads on both session ids.
IsolationScenarios ==
    {Scenario("clears", {"t1", "t2"}, {"sA", "sB"}, {"db"}, {"clear"}),
     Scenario("reads", {"t1", "t2"}, {"sA", "sB"}, {"db"}, {"read"})}
InitIsolation == Boot(IsolationScenarios)

\* The X-Session-Id of the client a slot serves.
ClientOf(t) == IF t = "t1" THEN "sA" ELSE "sB"

\* A client's request creates the generator with the client's session id.
StartOwn(t) == Start(t) /\ turns'[t].session_id = ClientOf(t)

NextIsolation ==
    \/ \E t \in Slots : StartOwn(t) \/ Pull(t)
    \/ \E s \in env.sessions : clear_history(s)
    \/ \E s \in env.sessions : get_chat_history(s)
SpecIsolation == InitIsolation /\ [][NextIsolation]_vars

\* ------------------------------------------------------------- properties

\* The turn was drained to its end: the generator returned.
Drained(tr) == tr.pc = "done"

\* The dispatched strategy failed (Build, Execute or a streaming completion).
StrategyFailed(tr) == tr.failures \cap {"build", "execute", "stream"} # {}

\* A Redis command of the turn failed.
StoreFailed(tr) == \E i \in 1..Len(tr.ops) : tr.ops[i].outcome # "ok"

IsErrorChunk(c) == StartsWith(c, ChatErrorPrefix) \/ StartsWith(c, SqlErrorPrefix)
ErrorChunks(tr) == {i \in 1..Len(tr.out) : IsErrorChunk(tr.out[i])}

LastOp(tr) == tr.ops[Len(tr.ops)]
Saves(tr) == {i \in 1..Len(tr.ops) : tr.ops[i].op = "save"}
StageNames(tr) == [i \in 1..Len(tr.stages) |-> tr.stages[i].stage]

\* The history the turn would persist after a success.
GrownByTwo(tr) ==
    tr.loaded \o <<HumanMessage(tr.user_input), AIMessage(tr.full_response)>>

\* C1 (as stated): no exception leaves invoke_stream, and in a drained turn
\* any failure (store load or save, router, Build, Execute, stream) shows as
\* an error-text chunk in the output.
C1_AnyFailureShowsAsChunk ==
    \A t \in Slots :
        LET tr == turns[t] IN
        /\ ~tr.escaped
        /\ Drained(tr) /\ (tr.failures # {} \/ StoreFailed(tr))
              => ErrorChunks(tr) # {}

\* C1 (amended): no exception leaves invoke_stream under any combination of
\* failures; a drained turn ends after its save, and its output holds an
\* error-text chunk exactly when the strategy failed (Build, Execute or a
\* stream): then it holds one, as the last chunk.  Store and router failures
\* add no chunk.
C1_NoEscape ==
    \A t \in Slots :
        LET tr == turns[t] IN
        /\ ~tr.escaped
        /\ tr.pc # "outer_error_yield"
        /\ Drained(tr) =>
              IF StrategyFailed(tr)
              THEN tr.out # <<>> /\ ErrorChunks(tr) = {Len(tr.out)}
              ELSE ErrorChunks(tr) = {}

C1_Witness ==
    \E t \in Slots :
        LET tr == turns[t] IN
        /\ Drained(tr)
        /\ tr.failures = {"router", "stream"}
        /\ \A i \in 1..Len(tr.ops) : tr.ops[i].outcome # "ok"
        /\ Len(tr.out) = 2

\* C2: in every drained turn, on every route and also after a strategy
\* failure, the last store call is a save of the full in-memory history under
\* the turn's session id, made after the last chunk was yielded, and it is
\* the only save besides the seeding one.
C2_LastOpIsTheSave ==
    \A t \in Slots :
        LET tr == turns[t] IN
        Drained(tr) =>
            /\ tr.ops # <<>>
            /\ LastOp(tr).op = "save"
            /\ LastOp(tr).session_id = tr.session_id
            /\ LastOp(tr).data = _serialize_messages(tr.messages)
            /\ LastOp(tr).yielded = Len(tr.out)
            /\ Saves(tr) = (IF tr.seeded THEN {2} ELSE {}) \cup {Len(tr.ops)}
            /\ \A i \in 1..(Len(tr.ops) - 1) : tr.ops[i].yielded = 0

C2_Witness ==
    \E t \in Slots :
        LET tr == turns[t] IN
        /\ Drained(tr)
        /\ tr.route = SQL
        /\ "stream" \in tr.failures
        /\ Len(tr.out) = 2
        /\ ~tr.seeded

\* C3: after a successful turn on any route the history saved is the one
\* loaded at the start followed by Human(user_input) and one AI message: two
\* more messages; when the save succeeds it is what the store holds.
C3_SuccessGrowsByTwo ==
    \A t \in Slots :
        LET tr == turns[t] IN
        Drained(tr) /\ ~StrategyFailed(tr) =>
            /\ tr.messages = GrownByTwo(tr)
            /\ LastOp(tr).data = _serialize_messages(GrownByTwo(tr))
            /\ Len(LastOp(tr).data) = Len(_serialize_messages(tr.loaded)) + 2
            /\ LastOp(tr).outcome # "set_raises" =>
                  /\ LastOp(tr).after.present
                  /\ _deserialize_messages(JsonLoads(LastOp(tr).after.bytes))
                        = GrownByTwo(tr)

C3_Witness ==
    \E t \in Slots :
        LET tr == turns[t] IN
        /\ Drained(tr) /\ ~StrategyFailed(tr)
        /\ tr.route = CHAT
        /\ Len(tr.streamed) = 2
        /\ Len(tr.loaded) = 3
        /\ LastOp(tr).outcome = "ok"

\* C4: every stored session history starts with the System message of the
\* global prompt and holds no other System message.
C4_OneSystemMessageFirst ==
    \A k \in Keys :
        store[k].present =>
            LET h == JsonLoads(store[k].bytes) IN
            /\ h # <<>>
            /\ h[1] = [type |-> "system", content |-> system_prompt]
            /\ \A i \in 2..Len(h) : h[i].type # "system"

C4_Witness ==
    \E k \in Keys :
        /\ store[k].present
        /\ Len(JsonLoads(store[k].bytes)) = 5
        /\ \E t \in Slots : "execute" \in turns[t].failures

\* C5: when the chat stream raises, the output ends with one error chunk, no
\* AI message is appended and the history saved is the loaded one plus the
\* Human message only; the fragments streamed before are not recorded.
C5_ChatFailureKeepsHumanOnly ==
    \A t \in Slots :
        LET tr == turns[t] IN
        Drained(tr) /\ tr.route = CHAT /\ "stream" \in tr.failures =>
            /\ tr.out = tr.streamed \o <<ChatErrorPrefix \o LlmErrorText>>
            /\ ErrorChunks(tr) = {Len(tr.out)}
            /\ tr.messages = tr.loaded \o <<HumanMessage(tr.user_input)>>
            /\ LastOp(tr).op = "save"
            /\ LastOp(tr).data = _serialize_messages(tr.messages)
            /\ Len(LastOp(tr).data) = Len(_serialize_messages(tr.loaded)) + 1
            /\ \A i \in 1..Len(LastOp(tr).data) :
                  LastOp(tr).data[i].type = "ai" =>
                      i <= Len(_serialize_messages(tr.loaded))

C5_Witness ==
    \E t \in Slots :
        LET tr == turns[t] IN
        /\ Drained(tr) /\ tr.route = CHAT /\ "stream" \in tr.failures
        /\ tr.streamed # <<>>
        /\ LastOp(tr).outcome = "ok"

\* C6 (as stated): in every drained turn whose strategy failed, on any
\* route, an AI message carrying the error text was appended before the final
\* save and is part of what was saved.
C6_EveryFailureRecorded ==
    \A t \in Slots :
        LET tr == turns[t] IN
        Drained(tr) /\ StrategyFailed(tr) =>
            /\ tr.messages[Len(tr.messages)].cls = "AIMessage"
            /\ IsErrorChunk(tr.messages[Len(tr.messages)].content)
            /\ LastOp(tr).data = _serialize_messages(tr.messages)

\* C6 (amended): in every drained sql turn whose strategy failed (Build,
\* Execute or the interpreter stream), the AI message carrying the error text
\* the caller saw was appended after the Human message before the final save
\* and is part of what was saved; in a chat turn whose stream failed no AI
\* message is appended and the save holds the Human message last.
C6_SqlFailureRecorded ==
    \A t \in Slots :
        LET tr == turns[t]
            last == tr.messages[Len(tr.messages)]
        IN
        Drained(tr) /\ StrategyFailed(tr) =>
            /\ tr.route \in {SQL, CHAT}
            /\ LastOp(tr).data = _serialize_messages(tr.messages)
            /\ tr.route = SQL =>
                  /\ last = AIMessage(tr.out[Len(tr.out)])
                  /\ IsErrorChunk(last.content)
                  /\ LastOp(tr).data[Len(LastOp(tr).data)] =
                        [type |-> "ai", content |-> tr.out[Len(tr.out)]]
                  /\ Len(tr.messages) = Len(tr.loaded) + 2
            /\ tr.route = CHAT =>
                  /\ last = HumanMessage(tr.user_input)
                  /\ Len(tr.messages) = Len(tr.loaded) + 1

C6_Witness ==
    \E t \in Slots :
        LET tr == turns[t] IN
        /\ Drained(tr)
        /\ tr.route = SQL
        /\ "stream" \in tr.failures
        /\ tr.streamed # <<>>
        /\ LastOp(tr).outcome = "ok"

\* C7: in a sql turn whose Build or Execute fails the interpreter stage is
\* never entered, the one chunk yielded is the error text, that text is the AI
\* message appended after the Human message, and the history saved has grown
\* by two.
C7_BuildExecuteFailure ==
    \A t \in Slots :
        LET tr == turns[t] IN
        tr.route = SQL /\ tr.failures \cap {"build", "execute"} # {} =>
            /\ tr.pc \in {"sql_error_yield", "done", "closed"}
            /\ \A i \in 1..Len(tr.stages) : tr.stages[i].stage # "interpret"
            /\ tr.temp_messages = <<>> /\ tr.streamed = <<>>
            /\ Len(tr.out) = 1
            /\ StartsWith(tr.out[1], SqlErrorPrefix)
            /\ tr.messages =
                  tr.loaded \o <<HumanMessage(tr.user_input), AIMessage(tr.out[1])>>
            /\ Drained(tr) =>
                  /\ LastOp(tr).data = _serialize_messages(tr.messages)
                  /\ Len(LastOp(tr).data) = Len(_serialize_messages(tr.loaded)) + 2

C7_Witness ==
    \E t \in Slots :
        LET tr == turns[t] IN
        /\ Drained(tr)
        /\ tr.route = SQL
        /\ "execute" \in tr.failures
        /\ Len(tr.loaded) > 1

\* C8: in a sql turn the stages entered are Build, Execute, Interpret in
\* that order, each at most once, and each starts with the history being the
\* loaded one plus the Human message; when all succeed the AI message is the
\* concatenation of the interpreter's fragments, and no message carries the
\* SQL text, the result text or the interpreter prompt.
C8_SqlStagesInOrder ==
    \A t \in Slots :
        LET tr == turns[t]
            n == Len(tr.stages)
        IN
        /\ tr.route # SQL => tr.stages = <<>>
        /\ n <= 3
        /\ StageNames(tr) = SubSeq(<<"build", "execute", "interpret">>, 1, n)
        /\ \A i \in 1..n :
              tr.stages[i].messages =
                  tr.loaded \o <<HumanMessage(tr.user_input)>>
        /\ Drained(tr) /\ tr.route = SQL /\ ~StrategyFailed(tr) =>
              /\ n = 3
              /\ tr.messages =
                    tr.loaded \o <<HumanMessage(tr.user_input),
                                   AIMessage(Concat(tr.streamed))>>
              /\ LastOp(tr).data = _serialize_messages(tr.messages)
              /\ \A i \in (Len(tr.loaded) + 1)..Len(tr.messages) :
                    /\ tr.messages[i].content # tr.sql_query
                    /\ tr.messages[i].content # tr.query_results
                    /\ tr.messages[i] # tr.temp_messages[2]

C8_Witness ==
    \E t \in Slots :
        LET tr == turns[t] IN
        /\ Drained(tr) /\ tr.route = SQL /\ ~StrategyFailed(tr)
        /\ Len(tr.streamed) = 2
        /\ tr.query_results = NoDataText

\* C9: the router always answers offside, chat or sql: chat when the
\* completion raises or its normalized text is none of the three labels, the
\* label itself otherwise.
C9_RouterTotal ==
    \A t \in Slots :
        LET tr == turns[t] IN
        tr.pc = "dispatch" =>
            /\ tr.route \in {OFFSIDE, CHAT, SQL}
            /\ tr.response.raised => tr.route = CHAT
            /\ ~tr.response.raised =>
                  IF \E label \in {OFFSIDE, CHAT, SQL} :
                        NormalizeRoute(tr.response.content) = label
                  THEN tr.route = NormalizeRoute(tr.response.content)
                  ELSE tr.route = CHAT

C9_Witness ==
    \E t \in Slots :
        LET tr == turns[t] IN
        /\ tr.pc = "dispatch"
        /\ tr.response = LlmReturns(<<"b", "a", "n", "a", "n", "a">>)
        /\ tr.route = CHAT

\* C10: a load that finds no blob returns the one System message of the
\* global prompt and has saved that history under the session id before it
\* returns: the save is the call after the load and, when Redis accepts it,
\* the key holds the one-message blob.
C10_SeedOnFirstLoad ==
    \A t \in Slots :
        LET tr == turns[t] IN
        tr.ops # <<>> /\ ~tr.ops[1].after.present =>
            /\ tr.ops[1].op = "load"
            /\ tr.seeded
            /\ tr.loaded = <<SystemMessage(system_prompt)>>
            /\ Len(tr.ops) >= 2
            /\ tr.ops[2].op = "save"
            /\ tr.ops[2].session_id = tr.session_id
            /\ tr.ops[2].data = <<[type |-> "system", content |-> system_prompt]>>
            /\ tr.ops[2].yielded = 0
            /\ tr.ops[2].outcome = "ok" =>
                  /\ tr.ops[2].after.present
                  /\ JsonLoads(tr.ops[2].after.bytes) = tr.ops[2].data

C10_Witness ==
    \E t \in Slots :
        LET tr == turns[t] IN
        /\ tr.pc = "route"
        /\ ~tr.ops[1].after.present
        /\ tr.ops[1].outcome = "ok"
        /\ tr.ops[2].outcome = "ok"
        /\ store[_make_key(tr.session_id)].present

\* The histories a load of the session may return in this state, over the
\* outcomes of its Redis commands.
LoadNow(s) ==
    {_get_session_messages(store, s, get, set).messages :
        get \in GetOutcomes, set \in SetOutcomes}

\* C11 (as stated): after clear_history(s), a load of s made before any turn
\* saves returns exactly the one System message of the global prompt.
C11_ClearThenLoad ==
    \A s \in Sessions :
        cleared[s] # NotCleared =>
            LoadNow(s) = {<<SystemMessage(system_prompt)>>}

\* C11 (amended): when Redis accepted the SET of clear_history(s), the key
\* holds the one-message blob and a load of s made before any turn saves
\* returns exactly the System message of the global prompt, whatever was
\* stored before; when the SET raised, the key holds what it held before.
C11_AcceptedClearThenLoad ==
    \A s \in Sessions :
        LET entry == store[_make_key(s)] IN
        /\ cleared[s].outcome \in {"ok", "expire_raises"} =>
              /\ entry.present
              /\ JsonLoads(entry.bytes) =
                    <<[type |-> "system", content |-> system_prompt]>>
              /\ LoadNow(s) = {<<SystemMessage(system_prompt)>>}
        /\ cleared[s].outcome = "set_raises" => entry = cleared[s].before

C11_Witness ==
    \E s \in Sessions :
        /\ cleared[s].outcome = "ok"
        /\ cleared[s].before.present
        /\ Len(JsonLoads(cleared[s].before.bytes)) = 5
        /\ Len(JsonLoads(store[_make_key(s)].bytes)) = 1

\* C12: for every history of System, Human, AI (with and without tool calls)
\* and Tool messages, deserializing its serialization gives the history back
\* (same length, order, message kinds, contents, tool_calls, tool_call_id),
\* and serializing that again gives the first blob.
C12_RoundTrip ==
    probe.fn = "round_trip" /\ probe.applied =>
        LET h == probe.input
            back == probe.output.back
        IN
        /\ Len(probe.output.blob) = Len(h)
        /\ Len(back) = Len(h)
        /\ \A i \in 1..Len(h) :
              /\ back[i].cls = h[i].cls
              /\ back[i].content = h[i].content
              /\ h[i].cls = "AIMessage" => back[i].tool_calls = h[i].tool_calls
              /\ h[i].cls = "ToolMessage" =>
                    back[i].tool_call_id = h[i].tool_call_id
        /\ back = h
        /\ probe.output.again = probe.output.blob

C12_Witness ==
    /\ probe.fn = "round_trip" /\ probe.applied
    /\ Len(probe.input) = 3
    /\ probe.input[1].cls = "SystemMessage"
    /\ probe.input[2].cls = "AIMessage" /\ probe.input[2].tool_calls # <<>>
    /\ probe.input[3].cls = "ToolMessage"
    /\ "tool_calls" \in DOMAIN probe.output.blob[2]

\* The store calls a turn makes when it runs to its end.
StoreCalls(tr) ==
    <<"load">> \o (IF tr.seeded THEN <<"save">> ELSE <<>>) \o <<"save">>
OpNames(tr) == [i \in 1..Len(tr.ops) |-> tr.ops[i].op]

\* C13: the store calls of a turn are one load, then the seeding save exactly
\* when the load returned no blob, then one final save, all under the turn's
\* session id: a turn under way has made these calls but the last, a turn
\* that reached its end has made them all, on every route and failure path.
C13_StoreCallsPerTurn ==
    \A t \in Slots :
        LET tr == turns[t]
            n == Len(tr.ops)
        IN
        /\ n <= Len(StoreCalls(tr))
        /\ OpNames(tr) = SubSeq(StoreCalls(tr), 1, n)
        /\ \A i \in 1..n : tr.ops[i].session_id = tr.session_id
        /\ n >= 1 =>
              (tr.seeded <=>
                  (tr.ops[1].outcome = "get_raises" \/ ~tr.ops[1].after.present))
        /\ tr.pc \in {"idle", "created"} => n = 0
        /\ tr.pc \notin {"idle", "created", "done"} =>
              n = Len(StoreCalls(tr)) - 1
        /\ Drained(tr) => n = Len(StoreCalls(tr))

C13_Witness ==
    \E t \in Slots :
        LET tr == turns[t] IN
        /\ Drained(tr)
        /\ tr.route = SQL /\ "build" \in tr.failures
        /\ OpNames(tr) = <<"load", "save", "save">>
        /\ tr.ops[1].outcome = "get_raises" /\ tr.ops[1].after.present

\* Nothing but whitespace (the empty text included).
IsBlank(text) == \A i \in 1..Len(text) : text[i] \in Whitespace

\* C14: when the result text of Execute is empty or holds only whitespace,
\* the data put in the interpreter's prompt is "No data available."; for any
\* other result it is the result text unchanged.
C14_EmptyResultSentinel ==
    probe.fn = "sentinel" /\ probe.applied =>
        LET data == IF IsBlank(probe.input) THEN <<"No data available.">>
                    ELSE probe.input
        IN
        /\ probe.output.data = data
        /\ probe.output.temp_messages[2] =
              HumanMessage(InterpreterContext(UserInput(1), data))

C14_Witness ==
    /\ probe.fn = "sentinel" /\ probe.applied
    /\ probe.input = <<" ", "\n", " ">>
    /\ probe.output.data = NoDataText

\* C15: a turn routed offside yields one chunk, the fixed refusal text,
\* calls no completion and no datastore operation besides the router's one
\* classification call, and records Human(user_input) then AI(refusal text),
\* which is what its final save writes.
C15_OffsideTurn ==
    \A t \in Slots :
        LET tr == turns[t]
            refusal == OffsideResponse
        IN
        tr.route = OFFSIDE =>
            /\ tr.calls = <<"router.llm.ainvoke">>
            /\ tr.stages = <<>> /\ tr.streamed = <<>> /\ tr.failures = {}
            /\ tr.pc \in {"dispatch", "offside_yield", "done", "closed"}
            /\ tr.out = (IF tr.pc = "dispatch" THEN <<>> ELSE <<refusal>>)
            /\ tr.pc = "offside_yield" =>
                  tr.messages = tr.loaded \o <<HumanMessage(tr.user_input)>>
            /\ Drained(tr) =>
                  /\ tr.messages =
                        tr.loaded \o <<HumanMessage(tr.user_input),
                                       AIMessage(refusal)>>
                  /\ LastOp(tr).op = "save"
                  /\ LastOp(tr).data = _serialize_messages(tr.messages)

C15_Witness ==
    \E t \in Slots :
        LET tr == turns[t] IN
        /\ Drained(tr)
        /\ tr.route = OFFSIDE
        /\ tr.out = <<OffsideResponse>>
        /\ Len(tr.loaded) = 3
        /\ LastOp(tr).outcome = "ok"

\* The dicts of a blob whose type is human or ai, in the blob's order.
RECURSIVE HumanAndAi(_)
HumanAndAi(blob) ==
    IF blob = <<>> THEN <<>>
    ELSE (IF Head(blob).type = "human" \/ Head(blob).type = "ai"
          THEN <<Head(blob)>> ELSE <<>>) \o HumanAndAi(Tail(blob))

\* C16 (as stated): a history read answers exactly the stored human and ai
\* messages of the session, in their stored order, an empty list when the
\* session has no blob, and leaves the key as it was.
C16_ReadReturnsStored ==
    LET r == history_response IN
    r.session_id # "" =>
        /\ r.after = r.before
        /\ r.data = (IF r.before.present
                     THEN HumanAndAi(JsonLoads(r.before.bytes)) ELSE <<>>)

\* C16 (amended): a history read never writes to the store; when the Redis
\* GET succeeds it answers exactly the stored human and ai messages of the
\* session in their stored order, an empty list when the session has no blob
\* (which stays absent); when the GET raises it answers an empty list.
C16_ReadFiltersAndLeaves ==
    LET r == history_response IN
    r.session_id # "" =>
        /\ r.after = r.before
        /\ r.outcome = "ok" =>
              r.data = (IF r.before.present
                        THEN HumanAndAi(JsonLoads(r.before.bytes)) ELSE <<>>)
        /\ r.outcome = "get_raises" => r.data = <<>>

C16_Witness ==
    LET r == history_response IN
    /\ r.session_id = "sA" /\ r.outcome = "ok"
    /\ Len(JsonLoads(r.before.bytes)) = 5
    /\ Len(r.data) = 4
    /\ r.data[1].type = "human" /\ r.data[2].type = "ai"

NoRepeat(seq) == \A i, j \in 1..Len(seq) : seq[i] = seq[j] => i = j

\* C17: when every awaited call returns or raises and the caller keeps
\* pulling, a turn that was started reaches its end, where its final save is
\* made; on the way no completion or datastore call is made twice (no stage
\* is retried, the router is not asked again) and the chunks yielded are at
\* most those of one stream and one error text.
C17_TurnEnds ==
    /\ \A t \in Slots : (turns[t].pc = "created") ~> Drained(turns[t])
    /\ [](\A t \in Slots :
            LET tr == turns[t] IN
            /\ NoRepeat(tr.calls)
            /\ NoRepeat(StageNames(tr))
            /\ Len(tr.out) <= MaxChunks + 1
            /\ Drained(tr) => LastOp(tr).op = "save"
                                /\ LastOp(tr).yielded = Len(tr.out))

C17_Witness ==
    \E t \in Slots :
        LET tr == turns[t] IN
        /\ Drained(tr)
        /\ tr.route = SQL /\ "stream" \in tr.failures
        /\ Len(tr.out) = MaxChunks + 1
        /\ tr.calls = <<"router.llm.ainvoke", "db.get_table_info",
                        "builder.llm.ainvoke", "db.run", "chat_llm.astream">>

\* The label inside a wrapped text: the text without the whitespace and quote
\* characters at its two ends, in lower case.
Unwrap(text) == Lower(Strip(text, Whitespace \cup {"\"", "'"}))

\* The wrapping characters before and after the label of a wrapped text.
LeadingWrap(text) ==
    SubSeq(text, 1, Len(text) - Len(LStrip(text, Whitespace \cup {"\"", "'"})))
TrailingWrap(text) ==
    SubSeq(text, Len(RStrip(text, Whitespace \cup {"\"", "'"})) + 1, Len(text))

\* Whitespace outermost, then double quotes, then single quotes.
WrapRank(c) == IF c \in Whitespace THEN 0 ELSE IF c = "\"" THEN 1 ELSE 2
WrappedInOrder(text) ==
    /\ \A i, j \in 1..Len(LeadingWrap(text)) :
          i < j => WrapRank(LeadingWrap(text)[i]) <= WrapRank(LeadingWrap(text)[j])
    /\ \A i, j \in 1..Len(TrailingWrap(text)) :
          i < j => WrapRank(TrailingWrap(text)[i]) >= WrapRank(TrailingWrap(text)[j])

\* C18 (as stated): for a completion text that is a label in any letter
\* case wrapped in any combination and nesting of whitespace, single and
\* double quotes, route returns that label.
C18_AnyWrapping ==
    probe.fn = "route" /\ probe.applied =>
        (Unwrap(probe.input) \in {OFFSIDE, CHAT, SQL} =>
            probe.output = Unwrap(probe.input))

\* C18 (amended): route returns the label, in lower case, when on each side
\* the wrapping is whitespace outermost, then double quotes, then single
\* quotes next to the label (any number of each, also none); for any other
\* wrapping it returns chat.
C18_OrderedWrapping ==
    probe.fn = "route" /\ probe.applied =>
        (Unwrap(probe.input) \in {OFFSIDE, CHAT, SQL} =>
            probe.output = (IF WrappedInOrder(probe.input)
                            THEN Unwrap(probe.input) ELSE CHAT))

C18_Witness ==
    /\ probe.fn = "route" /\ probe.applied
    /\ probe.input = <<" ", "\"", "S", "Q", "L", "'", "\"">>
    /\ probe.output = SQL

\* Two turns on one session id that both loaded before either saved: each
\* loaded the same history, without the other's Human message.
Overlapped(tr, ur) ==
    /\ tr.session_id = ur.session_id
    /\ tr.loaded = ur.loaded

\* C19: when two turns on one session id both load before either saves and
\* both reach their end, each has written the history it loaded plus its own
\* messages, and the store holds the blob of the one that saved last: the
\* commonly loaded history plus that turn's Human and AI message, without
\* the other turn's messages.
C19_LastWriterWins ==
    \A t, u \in Slots :
        LET tr == turns[t]
            ur == turns[u]
            entry == store[_make_key(tr.session_id)]
            blob == JsonLoads(entry.bytes)
            Lost(xr) == \A i \in 1..Len(blob) :
                            blob[i].content # xr.user_input
        IN
        t # u /\ Drained(tr) /\ Drained(ur) /\ Overlapped(tr, ur) =>
            /\ LastOp(tr).after.bytes = JsonDumps(LastOp(tr).data)
            /\ LastOp(ur).after.bytes = JsonDumps(LastOp(ur).data)
            /\ \E wr \in {tr, ur} :
                  /\ entry = LastOp(wr).after
                  /\ blob = _serialize_messages(
                        wr.loaded \o <<HumanMessage(wr.user_input),
                                       wr.messages[Len(wr.messages)]>>)
                  /\ wr.messages[Len(wr.messages)].cls = "AIMessage"
                  /\ Len(blob) = Len(_serialize_messages(wr.loaded)) + 2
            /\ Lost(tr) # Lost(ur)

C19_Witness ==
    \E t, u \in Slots :
        LET tr == turns[t]
            ur == turns[u]
            blob == JsonLoads(store[_make_key(tr.session_id)].bytes)
        IN
        /\ t # u /\ Drained(tr) /\ Drained(ur) /\ Overlapped(tr, ur)
        /\ tr.route = CHAT /\ ur.route = SQL
        /\ blob = LastOp(ur).data
        /\ LastOp(tr).after.bytes = JsonDumps(LastOp(tr).data)
        /\ blob # LastOp(tr).data

\* The blob holds the Human message of the turn and no message after it.
HumanWithoutAnswer(blob, tr) ==
    /\ blob # <<>>
    /\ blob[Len(blob)] = [type |-> "human", content |-> tr.user_input]

\* C20: a turn whose caller stopped pulling, at a chunk boundary or while a
\* call was awaited, on any route, is closed without its final save: its only
\* save, if any, is the seeding one, made before the Human message existed,
\* so no blob it wrote and no blob in the store holds its Human message,
\* with or without an AI message after it.
C20_AbandonedTurnNotSaved ==
    \A t \in Slots :
        LET tr == turns[t]
            blob == JsonLoads(store[_make_key(tr.session_id)].bytes)
        IN
        tr.abandoned =>
            /\ tr.pc = "closed" /\ ~tr.escaped
            /\ Saves(tr) \subseteq {2}
            /\ \A i \in Saves(tr) :
                  /\ tr.seeded
                  /\ tr.ops[i].data = _serialize_messages(SeedMessages)
            /\ \A i \in 1..Len(tr.ops) :
                  ~HumanWithoutAnswer(tr.ops[i].data, tr)
            /\ ~HumanWithoutAnswer(blob, tr)
            /\ \A i \in 1..Len(blob) : blob[i].content # tr.user_input

C20_Witness ==
    \E t \in Slots :
        LET tr == turns[t] IN
        /\ tr.abandoned
        /\ tr.route = CHAT
        /\ Len(tr.out) = 1
        /\ tr.messages = tr.loaded \o <<HumanMessage(tr.user_input)>>
        /\ Len(tr.loaded) = 3
        /\ store[_make_key(tr.session_id)].bytes =
              JsonDumps(_serialize_messages(tr.loaded))

\* The messages the turn has appended to the history it loaded.
Appended(tr) == SubSeq(tr.messages, Len(tr.loaded) + 1, Len(tr.messages))

\* C21: in every turn drained without a strategy failure, on any route, the
\* history ends with one AI message whose content is the concatenation, in
\* order, of all chunks the caller was given, and it is what the save wrote;
\* the AI message is appended only after the last chunk was yielded: while
\* such a turn is still running, its history holds no AI message of its own.
C21_ResponseCapturedInFull ==
    \A t \in Slots :
        LET tr == turns[t] IN
        ~StrategyFailed(tr) =>
            /\ Drained(tr) =>
                  /\ Appended(tr) = <<HumanMessage(tr.user_input),
                                      AIMessage(Concat(tr.out))>>
                  /\ tr.out = (IF tr.route = OFFSIDE THEN <<OffsideResponse>>
                               ELSE tr.streamed)
                  /\ LastOp(tr).data[Len(LastOp(tr).data)] =
                        [type |-> "ai", content |-> Concat(tr.out)]
                  /\ LastOp(tr).yielded = Len(tr.out)
            /\ ~Drained(tr) =>
                  \A i \in 1..Len(Appended(tr)) :
                      Appended(tr)[i].cls # "AIMessage"

C21_Witness ==
    \E t \in Slots :
        LET tr == turns[t] IN
        /\ Drained(tr) /\ ~StrategyFailed(tr)
        /\ tr.route = SQL
        /\ Len(tr.out) = 2
        /\ tr.messages[Len(tr.messages)].content =
              <<"fragment ", "1", "fragment ", "2">>
        /\ Len(tr.loaded) = 3

\* The chunks a drained turn gives its caller, as its route, its stream and
\* its strategy's failure determine them (no store outcome takes part).
ExpectedOut(tr) ==
    (IF tr.route = OFFSIDE THEN <<OffsideResponse>> ELSE tr.streamed)
        \o (IF ~StrategyFailed(tr) THEN <<>>
            ELSE IF tr.route = CHAT THEN <<ChatErrorPrefix \o LlmErrorText>>
            ELSE <<tr.messages[Len(tr.messages)].content>>)

\* The load of the turn met a Redis failure.
LoadFailed(tr) == tr.ops # <<>> /\ tr.ops[1].outcome = "get_raises"
\* The final save of the drained turn met a Redis failure.
SaveFailed(tr) == Drained(tr) /\ LastOp(tr).outcome # "ok"

\* C22: a turn whose session load failed goes on with the history of the one
\* System message (whatever the store holds) and no exception leaves it; a
\* drained turn, whether its load or its final save failed or not, has given
\* its caller exactly the chunks of its strategy, all of them before the
\* save, and no error chunk unless the strategy itself failed.
C22_StoreFailuresRequestScoped ==
    \A t \in Slots :
        LET tr == turns[t] IN
        /\ ~tr.escaped /\ tr.pc # "outer_error_yield"
        /\ LoadFailed(tr) =>
              /\ tr.loaded = SeedMessages
              /\ tr.seeded
              /\ tr.messages[1] = SystemMessage(system_prompt)
        /\ Drained(tr) =>
              /\ tr.out = ExpectedOut(tr)
              /\ LastOp(tr).yielded = Len(tr.out)
              /\ ~StrategyFailed(tr) => ErrorChunks(tr) = {}
              /\ LoadFailed(tr) /\ ~StrategyFailed(tr) =>
                    tr.messages = SeedMessages \o
                        <<HumanMessage(tr.user_input), AIMessage(Concat(tr.out))>>

C22_Witness ==
    \E t \in Slots :
        LET tr == turns[t] IN
        /\ Drained(tr) /\ ~StrategyFailed(tr)
        /\ LoadFailed(tr) /\ SaveFailed(tr)
        /\ tr.ops[1].after.present
        /\ Len(JsonLoads(tr.ops[1].after.bytes)) = 3
        /\ tr.route = CHAT
        /\ Len(tr.out) = 2

\* Where invoke_stream can be inside each branch of lines 285-330.
StrategyPcs(strategy) ==
    CASE strategy = "offside" -> {"offside_yield"}
      [] strategy = "sql" ->
           {"build", "execute", "interpret_astream", "interpret_yield",
            "sql_error_yield"}
      [] strategy = "chat" -> {"chat_astream", "chat_yield", "chat_error_yield"}

\* The branch that belongs to a route.
StrategyOf(route) ==
    CASE route = OFFSIDE -> "offside" [] route = SQL -> "sql" [] route = CHAT -> "chat"

\* C23: a turn enters no branch before the router has returned and, from the
\* dispatch on, exactly one: the one of its route.  Until the turn is over it
\* stays inside that branch, strategy failure included: an offside turn gives
\* the refusal and enters no SQL stage and makes no completion call beyond
\* the router's, a chat turn enters no SQL stage, and only an sql turn does.
C23_ExactlyOneStrategy ==
    \A t \in Slots :
        LET tr == turns[t] IN
        IF tr.pc \in {"idle", "created", "route", "dispatch"} \/ tr.route = <<>>
        THEN tr.strategies = <<>> /\ tr.stages = <<>> /\ tr.out = <<>>
        ELSE /\ tr.route \in {OFFSIDE, SQL, CHAT}
             /\ tr.strategies = <<StrategyOf(tr.route)>>
             /\ tr.pc \in StrategyPcs(StrategyOf(tr.route)) \cup {"done", "closed"}
             /\ tr.route # SQL => tr.stages = <<>>
             /\ tr.route = OFFSIDE =>
                   /\ tr.calls = <<"router.llm.ainvoke">>
                   /\ tr.out = <<OffsideResponse>>
             /\ tr.route = CHAT =>
                   tr.calls = <<"router.llm.ainvoke", "chat_llm.astream">>
             /\ tr.route = SQL /\ tr.pc \notin {"build", "closed"} =>
                   tr.stages # <<>> /\ tr.stages[1].stage = "build"
             /\ \A i \in 1..Len(tr.out) :
                   tr.out[i] = OffsideResponse => tr.route = OFFSIDE

C23_Witness ==
    \E t \in Slots :
        LET tr == turns[t] IN
        /\ Drained(tr)
        /\ tr.route = SQL
        /\ "execute" \in tr.failures
        /\ tr.strategies = <<"sql">>
        /\ tr.calls = <<"router.llm.ainvoke", "db.get_table_info",
                        "builder.llm.ainvoke", "db.run">>

\* C24 (as stated): every save the store accepted (seeding, end of turn,
\* clear) leaves the key with a time-to-live of 86400 seconds, no key that
\* holds a session is without a time-to-live, a load that finds the session
\* writes nothing and a history read leaves the key's entry, time-to-live
\* included, as it was.
C24_EverySessionExpires ==
    /\ \A t \in Slots : \A i \in 1..Len(turns[t].ops) :
          LET op == turns[t].ops[i] IN
          /\ op.op = "save" /\ op.outcome = "ok" =>
                op.after.present /\ op.after.ttl = <<default_ttl>>
          /\ op.op = "load" /\ ~turns[t].seeded /\ ~Drained(turns[t]) =>
                Saves(turns[t]) = {}
    /\ \A s \in Sessions :
          cleared[s].outcome = "ok" =>
              store[_make_key(s)].ttl = <<default_ttl>>
                  \/ ~store[_make_key(s)].present
    /\ history_response.before = history_response.after
    /\ \A k \in Keys : store[k].present => store[k].ttl = <<default_ttl>>

\* C25 (as stated): whatever query text Build produced, a turn that entered
\* the Execute stage has left the contents of the datastore as they were.
C25_DatastoreUnchanged ==
    \A t \in Slots :
        LET tr == turns[t] IN
        (\E i \in 1..Len(tr.stages) : tr.stages[i].stage = "execute")
            => rows = InitialRows

\* C26: build_query returns a query only when the completion text, trimmed
\* and without its code-fence markers, is not empty, and then the query has
\* no blank end and is not blank; otherwise it fails with the BuildError of
\* the empty answer.  So a turn enters Execute only with a query that is not
\* blank, and then the datastore is called.  execute_query on an empty or
\* blank text fails with its own error, whether the datastore would answer
\* or raise, and leaves the rows as they are.
C26_NoEmptyQuery ==
    /\ probe.fn = "build" /\ probe.applied =>
          LET built == probe.output.built
              executed == probe.output.executed
          IN
          /\ built.ok = (CleanQuery(probe.input) # <<>>)
          /\ built.ok =>
                /\ ~IsBlank(built.query)
                /\ Strip(built.query, Whitespace) = built.query
          /\ ~built.ok =>
                built.error = BuildErrorPrefix \o BuildEmptyText
          /\ IsBlank(probe.input) =>
                \A run \in {"ok", "raises"} :
                    /\ ~executed[run].ok
                    /\ executed[run].error = ExecuteErrorPrefix \o ExecuteEmptyText
                    /\ executed[run].rows = InitialRows
          /\ ~IsBlank(probe.input) =>
                /\ executed["ok"].ok
                /\ executed["raises"].error = ExecuteErrorPrefix \o DbErrorText
    /\ \A t \in Slots :
          LET tr == turns[t] IN
          /\ tr.pc = "execute" => ~IsBlank(tr.sql_query)
          /\ (\E i \in 1..Len(tr.stages) : tr.stages[i].stage = "execute") =>
                /\ ~IsBlank(tr.sql_query)
                /\ \E i \in 1..Len(tr.calls) : tr.calls[i] = "db.run"
                /\ \A i \in 1..Len(tr.out) :
                      tr.out[i] # SqlErrorPrefix \o ExecuteErrorPrefix
                                      \o ExecuteEmptyText

C26_Witness ==
    /\ probe.fn = "build" /\ probe.applied
    /\ probe.input = FenceSql \o <<"\n">> \o Fence
    /\ probe.output.built.error = BuildErrorPrefix \o BuildEmptyText
    /\ ~IsBlank(probe.input)

\* The turn has entered the Interpret stage.
Interpreting(tr) == \E i \in 1..Len(tr.stages) : tr.stages[i].stage = "interpret"

\* C27: the streaming completion of the Interpret stage is called with two
\* messages: the first message of the history (the System message) and one
\* Human message made of the question and the data; no message of an
\* earlier turn is among them.  The history is left as it was when the stage
\* was entered, the loaded one plus the Human message of the question, until
\* the answer is appended: it never holds the interpreter prompt nor a
\* second System message.
C27_InterpreterPrompt ==
    \A t \in Slots :
        LET tr == turns[t]
            prompt == HumanMessage(InterpreterContext(tr.user_input, tr.query_results))
        IN
        Interpreting(tr) =>
            /\ tr.temp_messages = <<tr.loaded[1], prompt>>
            /\ tr.temp_messages[1] = SystemMessage(system_prompt)
            /\ \A i \in 2..Len(tr.loaded) :
                  \A j \in 1..Len(tr.temp_messages) :
                      tr.temp_messages[j] # tr.loaded[i]
            /\ \A i \in 1..Len(tr.stages) :
                  tr.stages[i].stage = "interpret" =>
                      tr.stages[i].messages =
                          tr.loaded \o <<HumanMessage(tr.user_input)>>
            /\ SubSeq(tr.messages, 1, Len(tr.loaded) + 1) =
                  tr.loaded \o <<HumanMessage(tr.user_input)>>
            /\ Len(tr.messages) <= Len(tr.loaded) + 2
            /\ tr.pc \in {"interpret_astream", "interpret_yield"} =>
                  Len(tr.messages) = Len(tr.loaded) + 1
            /\ \A i \in 1..Len(tr.messages) :
                  /\ tr.messages[i] # prompt
                  /\ tr.messages[i].cls = "SystemMessage" => i = 1

C27_Witness ==
    \E t \in Slots :
        LET tr == turns[t] IN
        /\ Interpreting(tr)
        /\ tr.pc = "interpret_yield"
        /\ Len(tr.loaded) = 3
        /\ Len(tr.temp_messages) = 2
        /\ tr.query_results = NoDataText

\* The message or dict carries the text of the turn's question.
Carries(m, tr) == tr.user_input # <<>> /\ m.content = tr.user_input

\* No turn on another session id has left its question in what is stored,
\* loaded, held in memory or returned for a session id.
NoForeignMessage ==
    /\ \A t \in Slots : \A i \in 1..Len(turns[t].ops) :
          turns[t].ops[i].session_id = turns[t].session_id
    /\ \A t, u \in Slots :
          LET tr == turns[t]
              ur == turns[u]
              blob == JsonLoads(store[_make_key(ur.session_id)].bytes)
          IN
          tr.session_id # "" /\ ur.session_id # ""
                /\ tr.session_id # ur.session_id =>
              /\ \A i \in 1..Len(ur.loaded) : ~Carries(ur.loaded[i], tr)
              /\ \A i \in 1..Len(ur.messages) : ~Carries(ur.messages[i], tr)
              /\ \A i \in 1..Len(blob) : ~Carries(blob[i], tr)
    /\ \A t \in Slots :
          turns[t].session_id # history_response.session_id =>
              \A i \in 1..Len(history_response.data) :
                  ~Carries(history_response.data[i], turns[t])

\* A step that changes what is stored under a session id is a store call of
\* a turn on that session id or a clear of that session id; a history read
\* changes nothing.
OnlyOwnKeyChanges ==
    /\ \A s \in Sessions :
          store'[_make_key(s)] # store[_make_key(s)] =>
              \/ \E t \in Slots :
                    /\ turns[t].session_id = s
                    /\ Len(turns'[t].ops) > Len(turns[t].ops)
                    /\ \A u \in Slots \ {t} : turns'[u] = turns[u]
              \/ /\ cleared'[s] # cleared[s]
                 /\ cleared'[s].outcome # ""
                 /\ turns' = turns
    /\ history_response' # history_response => store' = store

\* C28: under any interleaving of a turn on one session id with a turn, clears
\* and history reads on another, what is stored under a session id changes
\* only by an operation on that session id, and the history loaded, held and
\* stored for a session id, and the one a read returns, never holds a
\* message appended by a turn on the other.
C28_SessionsIsolated == []NoForeignMessage /\ [][OnlyOwnKeyChanges]_vars

C28_Witness ==
    \E t, u \in Slots :
        LET tr == turns[t]
            ur == turns[u]
        IN
        /\ tr.session_id = "sA" /\ ur.session_id = "sB"
        /\ Drained(tr) /\ ur.pc = "chat_yield"
        /\ ur.user_input = UserInput(1)
        /\ cleared["sA"].outcome = "ok"
        /\ Len(JsonLoads(store[_make_key("sA")].bytes)) = 1
        /\ ~ur.seeded /\ Len(ur.loaded) = 1
        /\ JsonLoads(store[_make_key("sB")].bytes) = _serialize_messages(ur.loaded)

\* A clear_history of the turn's session id that the store accepted ran after
\* the turn's load and before its final save, with no save in between: it
\* met the history the turn had loaded and its blob is what the save met.
ClearedSinceLoad(tr) ==
    /\ Drained(tr)
    /\ ~tr.seeded
    /\ tr.overwrote.outcome = "ok"
    /\ tr.overwrote.before.present
    /\ JsonLoads(tr.overwrote.before.bytes) = _serialize_messages(tr.loaded)

\* C29: when a clear_history ran between a turn's load and its final save on
\* the same session id, the save writes the whole in-memory history: once the
\* store has accepted it, the session's blob is the history the turn loaded
\* before the clear followed by the turn's new messages (the Human message
\* and, unless the chat stream failed, an AI message), in place of the
\* System-only blob of the clear.
C29_ClearOverwritten ==
    \A t \in Slots :
        LET tr == turns[t]
            after == LastOp(tr).after
        IN
        ClearedSinceLoad(tr) /\ LastOp(tr).outcome = "ok" =>
            /\ after.present
            /\ JsonLoads(after.bytes) = _serialize_messages(tr.messages)
            /\ SubSeq(tr.messages, 1, Len(tr.loaded)) = tr.loaded
            /\ Appended(tr) # <<>>
            /\ Appended(tr)[1] = HumanMessage(tr.user_input)
            /\ Len(Appended(tr)) \in {1, 2}
            /\ Len(Appended(tr)) = 1 <=> (tr.route = CHAT /\ "stream" \in tr.failures)
            /\ JsonLoads(after.bytes) # _serialize_messages(SeedMessages)

C29_Witness ==
    \E t \in Slots :
        LET tr == turns[t] IN
        /\ ClearedSinceLoad(tr) /\ LastOp(tr).outcome = "ok"
        /\ Len(tr.loaded) = 3
        /\ tr.route = SQL
        /\ store[_make_key(tr.session_id)] = LastOp(tr).after
        /\ Len(JsonLoads(store[_make_key(tr.session_id)].bytes)) = 5

\* The load of the turn met no Redis failure.
LoadSucceeded(tr) ==
    /\ tr.ops # <<>>
    /\ tr.ops[1].op = "load" /\ tr.ops[1].outcome = "ok"

\* The history the load of the turn stands for: the stored list, or the
\* System-only list when the key did not exist.
LoadedBlob(tr) ==
    IF tr.ops[1].after.present THEN JsonLoads(tr.ops[1].after.bytes)
    ELSE _serialize_messages(SeedMessages)

\* C30: in every drained turn whose load succeeded, the list saved at the
\* end starts with the list that was loaded, message for message, and
\* goes on with the Human message of the question and then with one AI
\* message, or, only when the chat stream failed, with nothing more.
C30_AppendOnly ==
    \A t \in Slots :
        LET tr == turns[t]
            was == LoadedBlob(tr)
            saved == LastOp(tr).data
            new == SubSeq(saved, Len(was) + 1, Len(saved))
        IN
        Drained(tr) /\ LoadSucceeded(tr) =>
            /\ LastOp(tr).op = "save"
            /\ was = _serialize_messages(tr.loaded)
            /\ Len(saved) >= Len(was)
            /\ SubSeq(saved, 1, Len(was)) = was
            /\ Len(new) \in {1, 2}
            /\ new[1] = [type |-> "human", content |-> tr.user_input]
            /\ Len(new) = 2 => new[2].type = "ai"
            /\ Len(new) = 1 <=> (tr.route = CHAT /\ "stream" \in tr.failures)
            /\ LastOp(tr).outcome = "ok" =>
                  JsonLoads(LastOp(tr).after.bytes) = was \o new

C30_Witness ==
    \E t \in Slots :
        LET tr == turns[t] IN
        /\ Drained(tr) /\ LoadSucceeded(tr)
        /\ Len(JsonLoads(tr.ops[1].after.bytes)) = 3
        /\ tr.route = CHAT /\ "stream" \in tr.failures
        /\ Len(LastOp(tr).data) = 4
        /\ LastOp(tr).outcome = "ok"

====
